---- MODULE Spec2Model ----
(***************************************************************************)
(* OSF Institutions Dashboard (eolson3/osfidemo).                          *)
(*                                                                         *)
(* The repository holds three generations of one Streamlit script:         *)
(*   dashboard.py     ("v1" below)  0-based pages, multiselect filters     *)
(*   dashboard_v4.py  ("v4")        1-based pages, page-size selectbox     *)
(*   dashboard_v6.py  ("v6")        1-based pages, paginate() helper       *)
(*                                                                         *)
(* A DataFrame is a record [columns, rows]: the set of column names and    *)
(* the sequence of rows, each row a function from the column names to its  *)
(* cells.  A cell that is compared for equality is a string; a cell that   *)
(* is searched for substrings (contributor_name, add_ons) is a sequence of *)
(* one-character strings, so that Python's `c in text` is computed.        *)
(*                                                                         *)
(* Six specifications share the variables:                                 *)
(*   SpecFn   each step is one call of one function of the scripts on      *)
(*            arguments drawn from bounded sets; `call` records the        *)
(*            arguments and the result.                                    *)
(*   Spec     one browser session of one script: every step is one widget  *)
(*            interaction followed by the script's rerun (a rendering pass)*)
(*   SpecLoad each step loads one CSV file on one of the four load paths   *)
(*            and computes the summary metrics from it.                    *)
(*   SpecNorm each step is one call of a link normalizer or number parser. *)
(*   SpecExport each step renders one tab up to its download button.       *)
(*   SpecTabs one browser session of dashboard_v4.py or dashboard_v6.py    *)
(*            with its three entity tabs; df_entity, shown hold one value  *)
(*            per tab.                                                     *)
(***************************************************************************)
EXTENDS Integers, Sequences, FiniteSets, TLC

VARIABLES
    call,           \* SpecFn: the last function call, its arguments and result
    impl,           \* Spec: which script the session runs ("v1", "v4", "v6")
    df_entity,      \* Spec: the entity collection the tab was loaded with
    widgets,        \* Spec: the filter widgets' values
    session_state,  \* Spec: st.session_state, restricted to the page keys
    page_size,      \* Spec: rows per page
    shown           \* Spec: what the last rendering pass displayed

vars == <<call, impl, df_entity, widgets, session_state, page_size, shown>>

(***************************************************************************)
(* Bounds of the model.                                                    *)
(***************************************************************************)
\* longest entity collection handed to a paginator
MaxRows == 3
\* largest page size; the scripts use 10, 25, 50, 100, scaled down here
MaxPageSize == 2
\* largest page number found in st.session_state when a paginator is called
MaxStoredPage == 4
\* longest entity collection handed to a filter
MaxFilterRows == 2

(***************************************************************************)
(* Python and pandas primitives.                                           *)
(***************************************************************************)
Min(a, b) == IF a <= b THEN a ELSE b

Max(a, b) == IF a >= b THEN a ELSE b

\* len(df)
len(df) == Len(df.rows)

\* the bug of a window that stops one row early
iloc_short(df, start, end) ==
    [columns |-> df.columns,
     rows    |-> SubSeq(df.rows, start + 1, Min(end - 1, Len(df.rows)))]

\* df.iloc[start:end]: a Python slice, clipped to the frame, never raising
iloc(df, start, end) ==
    [columns |-> df.columns,
     rows    |-> SubSeq(df.rows, start + 1, Min(end, Len(df.rows)))]

\* math.ceil(total / page_size) for non-negative integers
math_ceil(total, size) ==
    IF total % size = 0 THEN total \div size ELSE (total \div size) + 1

\* st.session_state.get(key, default)
session_get(session, key, default) ==
    IF key \in DOMAIN session THEN session[key] ELSE default

\* the values of a list or of a column
Range(s) == {s[i] : i \in DOMAIN s}

\* the bug of one page key for every tab
page_key_shared(entity_key) == <<"all", "page">>

\* f"{entity_key}_page"
page_key(entity_key) == <<entity_key, "page">>

(***************************************************************************)
(* Paginators.                                                             *)
(***************************************************************************)
\* dashboard_v6.py: paginate(df, entity_key, page_size); reads and writes
\* st.session_state, returned here as the field `session`
paginate(df, entity_key, size, session) ==
    LET total == len(df) IN
    IF total = 0
    THEN [page_rows |-> df, page |-> 1, total_pages |-> 1, session |-> session]
    ELSE
        LET total_pages == Max(1, (total + size - 1) \div size)
            key         == page_key(entity_key)
            s1          == IF key \in DOMAIN session THEN session
                           ELSE session @@ (key :> 1)
            s2          == [s1 EXCEPT ![key] = Max(1, Min(total_pages, s1[key]))]
            start       == (s2[key] - 1) * size
            end         == start + size
        IN  [page_rows   |-> iloc(df, start, end),
             page        |-> s2[key],
             total_pages |-> total_pages,
             session     |-> s2]

\* dashboard_v4.py: the pagination lines of render_table; st.session_state is
\* read, never written
render_table_page(filtered, entity_key, size, session) ==
    LET total_pages == Max(1, (len(filtered) + size - 1) \div size)
        page0       == session_get(session, page_key(entity_key), 1)
        page        == Min(Max(1, page0), total_pages)
        start       == (page - 1) * size
        end         == start + size
    IN  [page_rows   |-> iloc(filtered, start, end),
         page        |-> page,
         total_pages |-> total_pages,
         session     |-> session]

\* the bug a paginate_df that rounds the page count down would have
paginate_df_floor(df, size, page_number) ==
    LET total == len(df) IN
    IF total = 0
    THEN [page_rows |-> df, total_pages |-> 0]
    ELSE [page_rows   |-> iloc(df, page_number * size, page_number * size + size),
          total_pages |-> total \div size]

\* dashboard.py: paginate_df(df, page_size, page_number), pages counted from 0
paginate_df(df, size, page_number) ==
    LET total == len(df) IN
    IF total = 0
    THEN [page_rows |-> df, total_pages |-> 0]
    ELSE
        LET start == page_number * size
            end   == start + size
        IN  [page_rows   |-> iloc(df, start, end),
             total_pages |-> math_ceil(total, size)]

(***************************************************************************)
(* Filters.  A filter run carries the frame filtered so far and whether a  *)
(* column lookup raised KeyError.                                          *)
(***************************************************************************)
\* the test that forgets to look for the column
has_column_unchecked(df, field) == TRUE

\* `field in df.columns`
has_column(df, field) == field \in df.columns

\* the columns whose cells are searched for substrings
TextColumns == {"contributor_name", "add_ons"}

\* the empty cell of a column: "" after fillna(""), NaN in dashboard.py, whose
\* text is "" as well
blank(field) == IF field \in TextColumns THEN <<>> ELSE ""

\* sorted([x for x in df[field].unique().tolist() if x != ""]) and
\* sorted(df[field].dropna().astype(str).unique().tolist()), as a set
options(df, field) ==
    IF field \in df.columns THEN {r[field] : r \in Range(df.rows)} \ {blank(field)}
    ELSE {}

\* df[field].tolist(), as a set; empty when the frame lacks the column
cells(df, field) ==
    IF field \in df.columns THEN {r[field] : r \in Range(df.rows)} ELSE {}

\* out = out[mask], the mask being true where the cell of `field` is one of
\* `accepted`: keeps those rows, in order; out[field] raises KeyError when the
\* frame has no such column
boolean_mask(acc, field, accepted) ==
    IF acc.raised THEN acc
    ELSE IF field \notin acc.out.columns THEN [acc EXCEPT !.raised = TRUE]
    ELSE [acc EXCEPT !.out.rows = SelectSeq(@, LAMBDA r : r[field] \in accepted)]

\* the bug of filtering the unfiltered frame again instead of `out`
filter_eq_from_start(df, acc, field, choice) ==
    boolean_mask([acc EXCEPT !.out = df], field, {choice})

\* dashboard_v6.py: out = out[out[field] == choice]
filter_eq(df, acc, field, choice) ==
    boolean_mask(acc, field, {choice})

\* dashboard_v6.py: TAB_FILTERS
TAB_FILTERS ==
    [project      |-> <<"resource_type", "license", "storage_region">>,
     registration |-> <<"resource_type", "license", "storage_region">>,
     preprint     |-> <<"resource_type", "license">>]

\* dashboard_v6.py: build_filters, the loop that asks one selectbox per field
\* of the tab that the frame has; `choice` is what each selectbox returns
RECURSIVE build_selected(_, _, _)
build_selected(filter_fields, df, choice) ==
    IF filter_fields = <<>> THEN <<>>
    ELSE
        LET field == Head(filter_fields) IN
        (IF ~has_column(df, field) THEN <<>> ELSE << <<field, choice[field]>> >>)
            \o build_selected(Tail(filter_fields), df, choice)

\* dashboard_v6.py: build_filters, the loop that applies the selected values
RECURSIVE apply_selected(_, _, _)
apply_selected(df, acc, selected) ==
    IF selected = <<>> THEN acc
    ELSE
        LET field  == Head(selected)[1]
            choice == Head(selected)[2]
        IN  apply_selected(
                df,
                IF choice # "" /\ choice # "All" /\ has_column(acc.out, field)
                THEN filter_eq(df, acc, field, choice)
                ELSE acc,
                Tail(selected))

\* dashboard_v6.py: build_filters(entity_key, df_entity)
build_filters(entity_key, df, choice) ==
    LET filter_fields == IF entity_key \in DOMAIN TAB_FILTERS
                         THEN TAB_FILTERS[entity_key] ELSE <<>>
        selected      == build_selected(filter_fields, df, choice)
        acc           == apply_selected(df, [out |-> df, raised |-> FALSE], selected)
    IN  [out      |-> acc.out,
         raised   |-> acc.raised,
         selected |-> selected,
         offered  |-> [f \in Range(filter_fields) |-> options(df, f)]]

\* the bug of forgetting that "All" is no value to filter by
filter_block_no_sentinel(acc, field, choice, always) ==
    IF acc.raised \/ field \notin acc.out.columns THEN acc
    ELSE boolean_mask(acc, field, {choice})

\* dashboard_v4.py: one `if column in out.columns:` block of render_filters;
\* `always` is FALSE for resource_type, whose selectbox needs an option
filter_block(acc, field, choice, always) ==
    IF acc.raised \/ ~has_column(acc.out, field) THEN acc
    ELSE IF ~always /\ options(acc.out, field) = {} THEN acc
    ELSE IF choice # "All" THEN boolean_mask(acc, field, {choice})
    ELSE acc

\* the options a block of render_filters offers; none when it shows no selectbox
block_offer(acc, field) ==
    IF acc.raised \/ ~has_column(acc.out, field) THEN {} ELSE options(acc.out, field)

\* dashboard_v4.py: render_filters(entity, df, key); choice.lic, choice.reg and
\* choice.rt are what the three selectboxes return
render_filters(entity, df, choice) ==
    LET a0 == [out |-> df, raised |-> FALSE]
        a1 == filter_block(a0, "license", choice["license"], TRUE)
        a2 == filter_block(a1, "storage_region", choice["storage_region"], TRUE)
        a3 == filter_block(a2, "resource_type", choice["resource_type"], FALSE)
    IN  IF entity \in {"project", "registration", "preprint"}
        THEN [out     |-> a3.out,
              raised  |-> a3.raised,
              offered |-> [license        |-> block_offer(a0, "license"),
                           storage_region |-> block_offer(a1, "storage_region"),
                           resource_type  |-> block_offer(a2, "resource_type")]]
        ELSE [out     |-> df,
              raised  |-> FALSE,
              offered |-> [license |-> {}, storage_region |-> {}, resource_type |-> {}]]

\* Python's `c in text` for strings: c is a contiguous part of text
is_substring(c, text) ==
    \E i \in 0..(Len(text) - Len(c)) : SubSeq(text, i + 1, i + Len(c)) = c

\* the bug of testing the creators with any() instead of all()
has_any_creator(val, creators_selected) ==
    \E c \in creators_selected : is_substring(c, val)

\* dashboard.py: has_all_creators(val), NaN read as the empty text
has_all_creators(val, creators_selected) ==
    \A c \in creators_selected : is_substring(c, val)

\* dashboard.py: has_any_addon(val), NaN read as the empty text
has_any_addon(val, addons_selected) ==
    \E a \in addons_selected : is_substring(a, val)

\* dashboard.py: one `if selected and column in projects.columns:` step
isin_step(acc, field, values) ==
    IF values # {} /\ has_column(acc.out, field)
    THEN boolean_mask(acc, field, values)
    ELSE acc

\* dashboard.py: the creators step of the projects and registrations tabs
creators_step(acc, creators_selected) ==
    IF creators_selected # {} /\ has_column(acc.out, "contributor_name")
    THEN boolean_mask(acc, "contributor_name",
                      {v \in cells(acc.out, "contributor_name") :
                            has_all_creators(v, creators_selected)})
    ELSE acc

\* dashboard.py: the add-ons step of the projects tab
addons_step(acc, addons_selected) ==
    IF addons_selected # {} /\ has_column(acc.out, "add_ons")
    THEN boolean_mask(acc, "add_ons",
                      {v \in cells(acc.out, "add_ons") : has_any_addon(v, addons_selected)})
    ELSE acc

\* dashboard.py: the year step; a created_date cell is modelled by the year
\* pd.to_datetime reads from it
year_step(acc, year_choice) ==
    IF has_column(acc.out, "created_date") /\ year_choice # "" /\ year_choice # "All years"
    THEN boolean_mask(acc, "created_date", {year_choice})
    ELSE acc

\* dashboard.py: the filtering of the projects tab, projects_raw.copy() onwards;
\* sel holds what the multiselects and the year selectbox return
projects_filter(projects_raw, sel) ==
    LET a0 == [out |-> projects_raw, raised |-> FALSE]
        a1 == creators_step(a0, sel.creators)
        a2 == year_step(a1, sel.year)
        a3 == isin_step(a2, "license", sel.licenses)
        a4 == isin_step(a3, "storage_region", sel.regions)
        a5 == isin_step(a4, "funder_name", sel.funders)
        a6 == isin_step(a5, "resource_type", sel.resource_types)
        a7 == addons_step(a6, sel.addons)
    IN  [out |-> a7.out, raised |-> a7.raised]

(***************************************************************************)
(* Column projectors.                                                      *)
(***************************************************************************)
\* list[:1]
first_of(list) == SubSeq(list, 1, Min(1, Len(list)))

\* [c for c in list if c in columns]
present(list, columns) == SelectSeq(list, LAMBDA c : c \in columns)

\* dashboard_v6.py: PROJECT_COLS
PROJECT_COLS ==
    <<"name_or_title", "osf_link", "created_date", "modified_date",
      "storage_region", "storage_gb", "views_last_30_days",
      "downloads_last_30_days", "license", "resource_type", "add_ons",
      "funder_name">>

\* dashboard_v6.py: REG_COLS
REG_COLS ==
    <<"name_or_title", "osf_link", "created_date", "modified_date", "doi",
      "storage_region", "storage_gb", "views_last_30_days",
      "downloads_last_30_days", "license", "resource_type", "add_ons",
      "funder_name">>

\* dashboard_v6.py: PREPRINT_COLS
PREPRINT_COLS ==
    <<"name_or_title", "osf_link", "created_date", "modified_date", "doi",
      "license", "resource_type", "views_last_30_days",
      "downloads_last_30_days">>

\* dashboard_v6.py: TAB_COLUMNS
TAB_COLUMNS ==
    [project |-> PROJECT_COLS, registration |-> REG_COLS, preprint |-> PREPRINT_COLS]

\* the bug of dropping the fallback for an empty selection
render_customize_no_fallback(available_cols, default_cols, checked) ==
    present(available_cols, checked)

\* dashboard_v6.py: render_customize(entity_key, available_cols, default_cols);
\* `checked` holds the columns whose checkbox returns True
render_customize_v6(available_cols, default_cols, checked) ==
    LET selected == present(available_cols, checked) IN
    IF selected = <<>>
    THEN IF default_cols # <<>> THEN first_of(default_cols) ELSE first_of(available_cols)
    ELSE selected

\* dashboard_v6.py: render_entity_tab, the columns offered to Customize
allowed_cols_v6(entity_key, columns) == present(TAB_COLUMNS[entity_key], columns)

\* dashboard_v4.py: column_sets(entity)
column_sets(entity) ==
    LET base == <<"name_or_title", "osf_link", "created_date", "modified_date",
                  "doi", "license", "storage_region", "storage_byte_count",
                  "storage_gb", "views_last_30_days", "downloads_last_30_days",
                  "resource_type", "add_ons", "funder_name", "report_yearmonth">>
    IN  IF entity \in {"project", "registration", "preprint"}
        THEN SelectSeq(base, LAMBDA c : c # "resource_type")
        ELSE base

\* dashboard_v4.py: render_table, the columns offered to Customize
available_v4(entity_key, columns) ==
    LET desired == column_sets(entity_key)
        a0      == present(desired, columns)
        a1      == IF "osf_link" \in columns /\ "osf_link" \notin Range(a0)
                   THEN <<"osf_link">> \o a0 ELSE a0
    IN  IF "doi" \in columns /\ "doi" \notin Range(a1) THEN Append(a1, "doi") ELSE a1

\* the bug of v4 keeping one column only
render_customize_first_only(available_cols, default_cols, checked) ==
    LET selected == present(available_cols, checked) IN
    IF selected = <<>> THEN first_of(default_cols) ELSE selected

\* dashboard_v4.py: render_customize(pop_key, available_cols, default_cols)
render_customize_v4(available_cols, default_cols, checked) ==
    LET selected == present(available_cols, checked) IN
    IF selected = <<>> THEN default_cols ELSE selected

\* f"{prefix}_cols_state"
cols_key(prefix) == <<prefix, "cols_state">>

\* dashboard.py: the allowed_cols of the projects tab, display names
allowed_cols_v1 ==
    <<"Title", "OSF Link", "Created date", "Modified date", "DOI",
      "Storage region", "Total data stored on OSF (GB)", "Creator(s)",
      "Views (last 30 days)", "Resource type", "License", "Add-ons",
      "Funder name">>

\* dashboard.py: get_saved_columns(all_existing, prefix)
get_saved_columns(all_existing, prefix, session) ==
    IF cols_key(prefix) \notin DOMAIN session THEN all_existing
    ELSE
        LET state         == session[cols_key(prefix)]
            selected_cols == SelectSeq(all_existing,
                                 LAMBDA c : IF c \in DOMAIN state THEN state[c] ELSE TRUE)
        IN  IF selected_cols # <<>> THEN selected_cols ELSE all_existing

(***************************************************************************)
(* The arguments the functions are called with.                            *)
(***************************************************************************)
SeqUpTo(S, n) == UNION {[1..k -> S] : k \in 0..n}

\* the cells a column holds; "" is the empty cell
StringCells(c) ==
    CASE c = "license"        -> {"", "MIT", "CC0"}
      [] c = "storage_region" -> {"", "US"}
      [] c = "resource_type"  -> {"", "Data"}
      [] c = "name_or_title"  -> {"p", "q"}
      [] OTHER                -> {""}

\* the joined cells of contributor_name and add_ons; <<>> is the empty cell
Texts == {<<>>, <<"a">>, <<"a", "b">>}

StringRows(cols) ==
    {r \in [cols -> {"", "MIT", "CC0", "US", "Data", "p", "q"}] :
        \A c \in cols : r[c] \in StringCells(c)}

Frames(cols, n) ==
    {[columns |-> cols, rows |-> rs] : rs \in SeqUpTo(StringRows(cols), n)}

\* the frames of dashboard.py: joined text cells next to string cells
MixedRows(cols) ==
    {t @@ r : t \in [cols \cap TextColumns -> Texts],
              r \in {x \in StringRows(cols \ TextColumns) :
                        \A c \in DOMAIN x : x[c] # "CC0"}}

MixedFrames(cols, n) ==
    {[columns |-> cols, rows |-> rs] : rs \in SeqUpTo(MixedRows(cols), n)}

PageFrames == Frames({"name_or_title"}, MaxRows)

PageSizes == 1..MaxPageSize

NoSession == [k \in {} |-> 0]

PageSessions(entity_key) ==
    {NoSession} \cup {(page_key(entity_key) :> n) : n \in 1..MaxStoredPage}

FilterFields == {"resource_type", "license", "storage_region"}

\* what a selectbox of the field can return
ChoiceSet(f) == {"All"} \cup (StringCells(f) \ {""})

Choices ==
    {ch \in [FilterFields -> {"All", "MIT", "CC0", "US", "Data"}] :
        \A f \in FilterFields : ch[f] \in ChoiceSet(f)}

\* a selectbox returns one of the options it offers
ValidChoice(df, offered, choice) ==
    \A f \in df.columns \cap FilterFields : choice[f] \in {"All"} \cup offered[f]

MultiFields == {"contributor_name", "license", "add_ons"}

\* what the multiselects of the projects tab can return for a frame
Selections(df) ==
    [creators       : SUBSET options(df, "contributor_name"),
     year           : {"All years"},
     licenses       : SUBSET options(df, "license"),
     regions        : {{}},
     funders        : {{}},
     resource_types : {{}},
     addons         : SUBSET options(df, "add_ons")]

ColumnPool == {"name_or_title", "osf_link", "doi", "license", "row_type"}

DisplayPool == {"Title", "OSF Link", "DOI", "row_type"}

\* the checkbox states customize_columns_box can have left behind
ColsSessions(prefix) ==
    {NoSession} \cup
    {(cols_key(prefix) :> state) :
        state \in UNION {[S -> BOOLEAN] : S \in SUBSET DisplayPool}}

(***************************************************************************)
(* SpecFn: one function call per step.                                     *)
(***************************************************************************)
NoCall == [fn |-> "none"]

Idle ==
    /\ impl = "none"
    /\ df_entity = [columns |-> {}, rows |-> <<>>]
    /\ widgets = NoSession
    /\ session_state = NoSession
    /\ page_size = 1
    /\ shown = [pass |-> "none"]

session_vars == <<impl, df_entity, widgets, session_state, page_size, shown>>

Call_paginate ==
    /\ call = NoCall
    /\ \E df \in PageFrames, size \in PageSizes, session \in PageSessions("project") :
        /\ call' = [fn |-> "paginate", df |-> df, size |-> size, session |-> session,
                    result |-> paginate(df, "project", size, session)]
        /\ UNCHANGED session_vars

Call_render_table_page ==
    /\ call = NoCall
    /\ \E df \in PageFrames, size \in PageSizes, session \in PageSessions("project") :
        /\ call' = [fn |-> "render_table_page", df |-> df, size |-> size,
                    session |-> session,
                    result |-> render_table_page(df, "project", size, session)]
        /\ UNCHANGED session_vars

Call_paginate_df ==
    /\ call = NoCall
    /\ \E df \in PageFrames, size \in PageSizes, page_number \in 0..MaxStoredPage :
        /\ call' = [fn |-> "paginate_df", df |-> df, size |-> size,
                    page_number |-> page_number,
                    result |-> paginate_df(df, size, page_number)]
        /\ UNCHANGED session_vars

Call_build_filters ==
    /\ call = NoCall
    /\ \E entity_key \in {"project", "preprint"}, cols \in SUBSET FilterFields :
        \E df \in Frames(cols, MaxFilterRows), choice \in Choices :
            LET result == build_filters(entity_key, df, choice) IN
            /\ \A f \in cols \cap Range(TAB_FILTERS[entity_key]) :
                    choice[f] \in {"All"} \cup result.offered[f]
            /\ call' = [fn |-> "build_filters", entity_key |-> entity_key, df |-> df,
                        choice |-> choice, result |-> result]
            /\ UNCHANGED session_vars

Call_render_filters ==
    /\ call = NoCall
    /\ \E cols \in SUBSET FilterFields :
        \E df \in Frames(cols, MaxFilterRows), choice \in Choices :
            LET result == render_filters("project", df, choice) IN
            /\ ValidChoice(df, result.offered, choice)
            /\ call' = [fn |-> "render_filters", entity_key |-> "project", df |-> df,
                        choice |-> choice, result |-> result]
            /\ UNCHANGED session_vars

Call_projects_filter ==
    /\ call = NoCall
    /\ \E cols \in SUBSET MultiFields :
        \E df \in MixedFrames(cols, MaxFilterRows) :
            \E sel \in Selections(df) :
                /\ call' = [fn |-> "projects_filter", df |-> df, sel |-> sel,
                            result |-> projects_filter(df, sel)]
                /\ UNCHANGED session_vars

Call_render_customize_v6 ==
    /\ call = NoCall
    /\ \E entity_key \in DOMAIN TAB_COLUMNS, columns \in SUBSET ColumnPool :
        LET allowed_cols == allowed_cols_v6(entity_key, columns) IN
        \E checked \in SUBSET Range(allowed_cols) :
            /\ call' = [fn |-> "render_customize_v6", available |-> allowed_cols,
                        default_cols |-> allowed_cols, checked |-> checked,
                        result |-> render_customize_v6(allowed_cols, allowed_cols, checked)]
            /\ UNCHANGED session_vars

Call_render_customize_v4 ==
    /\ call = NoCall
    /\ \E entity_key \in {"project", "registration", "preprint"},
       columns \in SUBSET ColumnPool :
        LET available == available_v4(entity_key, columns) IN
        \E checked \in SUBSET Range(available) :
            /\ call' = [fn |-> "render_customize_v4", available |-> available,
                        default_cols |-> available, checked |-> checked,
                        result |-> render_customize_v4(available, available, checked)]
            /\ UNCHANGED session_vars

Call_get_saved_columns ==
    /\ call = NoCall
    /\ \E columns \in SUBSET DisplayPool, session \in ColsSessions("projects") :
        LET existing == present(allowed_cols_v1, columns) IN
        /\ call' = [fn |-> "get_saved_columns", available |-> existing,
                    default_cols |-> existing, session |-> session,
                    checked |-> IF session = NoSession THEN Range(existing)
                                ELSE {c \in Range(existing) :
                                        LET state == session[cols_key("projects")] IN
                                        IF c \in DOMAIN state THEN state[c] ELSE TRUE},
                    result |-> get_saved_columns(existing, "projects", session)]
        /\ UNCHANGED session_vars

\* the call returns; the next call starts from nothing
Return ==
    /\ call # NoCall
    /\ call' = NoCall
    /\ UNCHANGED session_vars

InitFn == call = NoCall /\ Idle

NextFn ==
    \/ Call_paginate
    \/ Call_render_table_page
    \/ Call_paginate_df
    \/ Call_build_filters
    \/ Call_render_filters
    \/ Call_projects_filter
    \/ Call_render_customize_v6
    \/ Call_render_customize_v4
    \/ Call_get_saved_columns
    \/ Return

SpecFn == InitFn /\ [][NextFn]_vars

(***************************************************************************)
(* Spec: one session of one script on the projects tab.  A step is one     *)
(* widget interaction and the rerun of the script that follows it.         *)
(***************************************************************************)
\* dashboard.py: render_pagination_controls(total_pages, current_page, key_prefix);
\* `pressed` is the button whose press started this rerun, "none" otherwise
render_pagination_controls(total_pages, current_page, pressed) ==
    IF total_pages <= 1 THEN current_page
    ELSE IF pressed = "first" /\ current_page > 0 THEN 0
    ELSE IF pressed = "prev" /\ current_page > 0 THEN current_page - 1
    ELSE IF pressed = "next" /\ current_page < total_pages - 1 THEN current_page + 1
    ELSE current_page

\* dashboard_v6.py: render_pagination_controls, the page a pressed button stores
render_pagination_controls_v6(entity_key, current_page, total_pages, pressed, session) ==
    LET key   == page_key(entity_key)
        value == CASE pressed = "first" -> 1
                   [] pressed = "prev"  -> Max(1, current_page - 1)
                   [] pressed = "next"  -> Min(total_pages, current_page + 1)
    IN  (key :> value) @@ session

\* dashboard_v4.py: render_table, the page a pressed button stores
render_table_controls(entity_key, page, total_pages, pressed, session) ==
    LET key   == page_key(entity_key)
        value == CASE pressed = "first" -> 1
                   [] pressed = "prev"  -> page - 1
                   [] pressed = "next"  -> page + 1
                   [] pressed = "last"  -> total_pages
    IN  (key :> value) @@ session

\* the buttons a script draws, and whether the last pass drew one enabled
Buttons(script) ==
    CASE script = "v1" -> {"first", "prev", "next"}
      [] script = "v6" -> {"first", "prev", "next"}
      [] script = "v4" -> {"first", "prev", "next", "last"}

CanPress(script, button, last) ==
    /\ button \in Buttons(script)
    /\ last.paginated
    /\ CASE script = "v1" -> last.total_pages > 1
         [] script = "v6" -> IF button = "next" THEN last.page < last.total_pages
                             ELSE last.page # 1
         [] script = "v4" -> IF button \in {"next", "last"}
                             THEN last.page < last.total_pages
                             ELSE last.page > 1

\* dashboard_v6.py: render_entity_tab, filters and pagination
render_entity_tab(df, choice, size, session) ==
    LET f == build_filters("project", df, choice)
        p == paginate(f.out, "project", size, session)
    IN  [session |-> p.session,
         shown   |-> [paginated   |-> TRUE,
                      filtered    |-> f.out.rows,
                      offered     |-> f.offered,
                      requested   |-> session_get(session, page_key("project"), 1),
                      page        |-> p.page,
                      total_pages |-> p.total_pages,
                      page_rows   |-> p.page_rows.rows]]

\* dashboard_v4.py: render_table, filters and pagination
render_table(df, choice, size, session) ==
    LET f == render_filters("project", df, choice)
        p == render_table_page(f.out, "project", size, session)
    IN  [session |-> session,
         shown   |-> [paginated   |-> TRUE,
                      filtered    |-> f.out.rows,
                      offered     |-> f.offered,
                      requested   |-> session_get(session, page_key("project"), 1),
                      page        |-> p.page,
                      total_pages |-> p.total_pages,
                      page_rows   |-> p.page_rows.rows]]

\* dashboard.py: the projects tab, filters and pagination; pages are shown
\* counted from 1, as its label does (current_page + 1)
projects_tab(projects_raw, sel, size, session, pressed) ==
    LET f            == projects_filter(projects_raw, sel)
        key          == page_key("projects")
        current_page == session_get(session, key, 0)
        p            == paginate_df(f.out, size, current_page)
        next_page    == render_pagination_controls(p.total_pages, current_page, pressed)
    IN  IF len(f.out) = 0
        THEN [session |-> session,
              shown   |-> [paginated   |-> FALSE,
                           filtered    |-> f.out.rows,
                           offered     |-> [license |-> options(projects_raw, "license")],
                           requested   |-> current_page + 1,
                           page        |-> 0,
                           total_pages |-> 0,
                           page_rows   |-> <<>>]]
        ELSE [session |-> (key :> next_page) @@ session,
              shown   |-> [paginated   |-> TRUE,
                           filtered    |-> f.out.rows,
                           offered     |-> [license |-> options(projects_raw, "license")],
                           requested   |-> current_page + 1,
                           page        |-> current_page + 1,
                           total_pages |-> p.total_pages,
                           page_rows   |-> p.page_rows.rows]]

\* one run of the script
RenderPass(script, df, w, size, session, pressed) ==
    CASE script = "v6" -> render_entity_tab(df, w, size, session)
      [] script = "v4" -> render_table(df, w, size, session)
      [] script = "v1" -> projects_tab(df, w, size, session, pressed)

\* the widgets before the user touches them
FreshWidgets(script) ==
    IF script = "v1"
    THEN [creators |-> {}, year |-> "All years", licenses |-> {}, regions |-> {},
          funders |-> {}, resource_types |-> {}, addons |-> {}]
    ELSE [f \in FilterFields |-> "All"]

Scripts == {"v1", "v4", "v6"}

SessionFrames == Frames({"license"}, MaxRows)

Init ==
    /\ call = NoCall
    /\ impl \in Scripts
    /\ df_entity \in SessionFrames
    /\ page_size \in PageSizes
    /\ widgets = FreshWidgets(impl)
    /\ LET pass == RenderPass(impl, df_entity, widgets, page_size, NoSession, "none")
       IN  session_state = pass.session /\ shown = pass.shown

Rerun(w, size, session, pressed) ==
    LET pass == RenderPass(impl, df_entity, w, size, session, pressed) IN
    /\ session_state' = pass.session
    /\ shown' = pass.shown
    /\ widgets' = w
    /\ page_size' = size
    /\ UNCHANGED <<call, impl, df_entity>>

\* the user picks another license in the License selectbox (v4, v6)
SelectFilter ==
    /\ impl \in {"v4", "v6"}
    /\ \E choice \in ({"All"} \cup shown.offered["license"]) \ {widgets["license"]} :
            Rerun([widgets EXCEPT !["license"] = choice], page_size, session_state, "none")

\* the user adds a license to the License multiselect or removes one (v1)
MultiSelectFilter ==
    /\ impl = "v1"
    /\ \E x \in shown.offered["license"] :
            Rerun([widgets EXCEPT !.licenses =
                        IF x \in @ THEN @ \ {x} ELSE @ \cup {x}],
                  page_size, session_state, "none")

\* the user presses a pagination button
Press ==
    \E button \in {"first", "prev", "next", "last"} :
        /\ CanPress(impl, button, shown)
        /\ CASE impl = "v1" ->
                    Rerun(widgets, page_size, session_state, button)
             [] impl = "v6" ->
                    Rerun(widgets, page_size,
                          render_pagination_controls_v6("project", shown.page,
                              shown.total_pages, button, session_state),
                          "none")
             [] impl = "v4" ->
                    Rerun(widgets, page_size,
                          render_table_controls("project", shown.page,
                              shown.total_pages, button, session_state),
                          "none")

\* the user picks another value in "Rows per page" (v4)
ChangePageSize ==
    /\ impl = "v4"
    /\ \E size \in PageSizes \ {page_size} :
            Rerun(widgets, size, session_state, "none")

Next ==
    \/ SelectFilter
    \/ MultiSelectFilter
    \/ Press
    \/ ChangePageSize

Spec == Init /\ [][Next]_vars

(***************************************************************************)
(* Properties of the paginators.                                           *)
(***************************************************************************)
Paginators == {"paginate", "render_table_page", "paginate_df"}

\* the least k with k * d >= n
Ceil(n, d) == CHOOSE k \in 0..n : k * d >= n /\ \A j \in 0..n : j * d >= n => k <= j

\* the rows the call's paginator shows for page p (counted from 1) of its view
PageRowsOf(c, p) ==
    CASE c.fn = "paginate" ->
            paginate(c.df, "project", c.size, page_key("project") :> p).page_rows.rows
      [] c.fn = "render_table_page" ->
            render_table_page(c.df, "project", c.size,
                              page_key("project") :> p).page_rows.rows
      [] c.fn = "paginate_df" ->
            paginate_df(c.df, c.size, p - 1).page_rows.rows

RECURSIVE ConcatPages(_, _)
ConcatPages(c, n) ==
    IF n = 0 THEN <<>> ELSE ConcatPages(c, n - 1) \o PageRowsOf(c, n)

\* C2: for every view and page size, the rows of pages 1..total_pages, put
\* end to end, are the view: no row dropped, duplicated or moved.
C2_PagesReconstructView ==
    call.fn \in Paginators =>
        ConcatPages(call, call.result.total_pages) = call.df.rows

\* a view whose last page is partial has been paginated
C2_Witness ==
    /\ call.fn = "paginate"
    /\ call.result.total_pages >= 2
    /\ Len(call.df.rows) % call.size # 0

EqualityFilters == {"build_filters", "render_filters"}

\* the columns the call's predicates name
PredicateFields(c) ==
    IF c.fn = "build_filters" THEN Range(TAB_FILTERS[c.entity_key]) ELSE FilterFields

\* the predicates that ask for a value of a column of the frame
ActiveFields(c) ==
    {f \in PredicateFields(c) \cap c.df.columns : c.choice[f] \notin {"All", ""}}

SatisfiesAll(c, r) == \A f \in ActiveFields(c) : r[f] = c.choice[f]

\* C5: the output of an equality filter is the input's rows that satisfy every
\* active predicate, all of them, in their original order, and nothing else.
C5_FilterIsSelection ==
    call.fn \in EqualityFilters =>
        /\ call.result.out.rows = SelectSeq(call.df.rows, LAMBDA r : SatisfiesAll(call, r))
        /\ call.result.out.columns = call.df.columns
        /\ Len(call.result.out.rows) <= Len(call.df.rows)
        /\ \A i \in DOMAIN call.result.out.rows : SatisfiesAll(call, call.result.out.rows[i])

\* two predicates were active; a row survived and a row was dropped
C5_Witness ==
    /\ call.fn \in EqualityFilters
    /\ Cardinality(ActiveFields(call)) >= 2
    /\ Len(call.result.out.rows) > 0
    /\ Len(call.result.out.rows) < Len(call.df.rows)

\* whether the predicates of the projects tab keep row r, every requested
\* add-on being asked for when each_addon, one of them otherwise
MultiKeeps(c, r, each_addon) ==
    /\ c.sel.creators # {} =>
            \A x \in c.sel.creators : is_substring(x, r["contributor_name"])
    /\ c.sel.licenses # {} => r["license"] \in c.sel.licenses
    /\ c.sel.addons # {} =>
            IF each_addon
            THEN \A x \in c.sel.addons : is_substring(x, r["add_ons"])
            ELSE \E x \in c.sel.addons : is_substring(x, r["add_ons"])

\* C6 as stated: creators and add-ons alike keep a row iff every requested
\* value is a substring of the cell.
C6_Original ==
    call.fn = "projects_filter" =>
        call.result.out.rows =
            SelectSeq(call.df.rows, LAMBDA r : MultiKeeps(call, r, TRUE))

\* C6 as amended: the creator predicate keeps a row iff every requested name
\* is a substring of the cell (AND); the add-on predicate keeps a row iff at
\* least one requested add-on is a substring of the cell (OR).
C6_MultiValue ==
    call.fn = "projects_filter" =>
        call.result.out.rows =
            SelectSeq(call.df.rows, LAMBDA r : MultiKeeps(call, r, FALSE))

\* two creators were requested and a row naming only one of them was dropped,
\* and two add-ons were requested and a row holding only one of them was kept
C6_Witness ==
    /\ call.fn = "projects_filter"
    /\ Cardinality(call.sel.creators) >= 2
    /\ \E i \in DOMAIN call.df.rows :
            /\ \E x \in call.sel.creators :
                    is_substring(x, call.df.rows[i]["contributor_name"])
            /\ call.df.rows[i] \notin Range(call.result.out.rows)
    /\ Cardinality(call.sel.addons) >= 2
    /\ \E i \in DOMAIN call.result.out.rows :
            \E x \in call.sel.addons :
                ~is_substring(x, call.result.out.rows[i]["add_ons"])

\* the predicates of a call, by name, and the code that applies one of them
PredicatesOf(c) ==
    IF c.fn = "projects_filter" THEN {"creators", "licenses", "addons"}
    ELSE PredicateFields(c)

ApplyOne(c, acc, p) ==
    CASE c.fn = "build_filters" ->
            apply_selected(c.df, acc, << <<p, c.choice[p]>> >>)
      [] c.fn = "render_filters" ->
            filter_block(acc, p, c.choice[p], p # "resource_type")
      [] c.fn = "projects_filter" ->
            CASE p = "creators" -> creators_step(acc, c.sel.creators)
              [] p = "licenses" -> isin_step(acc, "license", c.sel.licenses)
              [] p = "addons"   -> addons_step(acc, c.sel.addons)

ApplyTwo(c, p, q) ==
    ApplyOne(c, ApplyOne(c, [out |-> c.df, raised |-> FALSE], p), q).out.rows

ApplyAlone(c, p) == ApplyOne(c, [out |-> c.df, raised |-> FALSE], p).out.rows

Filters == {"build_filters", "render_filters", "projects_filter"}

\* C7: two predicates applied one after the other keep the rows that each of
\* them keeps alone, whichever is applied first.
C7_FiltersCommute ==
    call.fn \in Filters =>
        \A p, q \in PredicatesOf(call) :
            p # q =>
                /\ ApplyTwo(call, p, q) = ApplyTwo(call, q, p)
                /\ ApplyTwo(call, p, q) =
                        SelectSeq(call.df.rows,
                            LAMBDA r : /\ r \in Range(ApplyAlone(call, p))
                                       /\ r \in Range(ApplyAlone(call, q)))

\* two predicates each dropped a row the other kept
C7_Witness ==
    /\ call.fn = "build_filters"
    /\ \E p, q \in PredicatesOf(call) :
            /\ p # q
            /\ Range(ApplyAlone(call, p)) \ Range(ApplyAlone(call, q)) # {}
            /\ Range(ApplyAlone(call, q)) \ Range(ApplyAlone(call, p)) # {}
            /\ ApplyTwo(call, p, q) = <<>>

\* the same call with the predicate on column f taken away
WithoutPredicate(c, f) ==
    IF c.fn = "build_filters"
    THEN build_filters(c.entity_key, c.df, [c.choice EXCEPT ![f] = "All"])
    ELSE render_filters(c.entity_key, c.df, [c.choice EXCEPT ![f] = "All"])

\* C8: a predicate on a column the frame lacks raises nothing and changes
\* nothing: the output is the output of the call without that predicate.
C8_AbsentColumnSkipped ==
    call.fn \in EqualityFilters =>
        /\ ~call.result.raised
        /\ \A f \in PredicateFields(call) \ call.df.columns :
                /\ ~WithoutPredicate(call, f).raised
                /\ call.result.out = WithoutPredicate(call, f).out

\* a value was requested of a column the frame lacks, next to an active
\* predicate on a column it has
C8_Witness ==
    /\ call.fn \in EqualityFilters
    /\ \E f \in PredicateFields(call) \ call.df.columns : call.choice[f] # "All"
    /\ ActiveFields(call) # {}
    /\ call.result.out.rows # <<>>
    /\ ~call.result.raised

(***************************************************************************)
(* Properties of the column projectors.                                    *)
(***************************************************************************)
Projectors == {"render_customize_v6", "render_customize_v4", "get_saved_columns"}

\* C9: whatever the user checked, the projector returns at least one column
\* when at least one is available.
C9_ColumnsNeverEmpty ==
    (call.fn \in Projectors /\ call.available # <<>>) => call.result # <<>>

\* every checkbox was unchecked and a column came back
C9_Witness ==
    /\ call.fn \in Projectors
    /\ call.available # <<>>
    /\ call.checked = {}
    /\ call.result # <<>>

\* the defaults that are available, in declared order, else the first
\* available column
FullFallback(c) ==
    IF present(c.default_cols, Range(c.available)) # <<>>
    THEN present(c.default_cols, Range(c.available))
    ELSE first_of(c.available)

\* C10 as stated: an empty selection yields the full list of available
\* defaults, and the first available column only when there is none.
C10_Original ==
    (call.fn \in Projectors /\ call.checked = {} /\ call.available # <<>>) =>
        call.result = FullFallback(call)

\* C10 as amended: on an empty selection render_customize of v4 and
\* get_saved_columns of dashboard.py return the full list of defaults, in
\* declared order; render_customize of v6 returns the first default only.
C10_Fallback ==
    (call.fn \in Projectors /\ call.checked = {} /\ call.available # <<>>) =>
        IF call.fn = "render_customize_v6"
        THEN call.result = <<call.default_cols[1]>>
        ELSE call.result = FullFallback(call)

\* v6 answered an empty selection over several defaults with one column
C10_Witness ==
    /\ call.fn = "render_customize_v6"
    /\ call.checked = {}
    /\ Len(call.default_cols) >= 2
    /\ Len(call.result) = 1

(***************************************************************************)
(* Properties of a session.                                                *)
(***************************************************************************)
\* C1 as stated: in every pass the page shown is the stored page clamped into
\* 1..total_pages.
C1_Original ==
    shown.paginated =>
        /\ shown.page = Min(Max(1, shown.requested), shown.total_pages)
        /\ shown.page \in 1..shown.total_pages

\* C4 as stated: the pass that follows a change of the page size shows page 1.
C4_Original == [][page_size' # page_size => shown'.page = 1]_vars

(***************************************************************************)
(* Python strings.  A CSV cell of the loader is a str: a sequence of       *)
(* one-character strings, so that strip(), lower(), replace() and the      *)
(* regular expressions of the scripts are computed character by character. *)
(***************************************************************************)
Digits == <<"0", "1", "2", "3", "4", "5", "6", "7", "8", "9">>

Uppercase ==
    <<"A", "B", "C", "D", "E", "F", "G", "H", "I", "J", "K", "L", "M",
      "N", "O", "P", "Q", "R", "S", "T", "U", "V", "W", "X", "Y", "Z">>

Lowercase ==
    <<"a", "b", "c", "d", "e", "f", "g", "h", "i", "j", "k", "l", "m",
      "n", "o", "p", "q", "r", "s", "t", "u", "v", "w", "x", "y", "z">>

\* the whitespace str.strip() and \s know, of the characters the cells hold
Whitespace == {" "}

lower_char(ch) ==
    IF ch \in Range(Uppercase)
    THEN Lowercase[CHOOSE i \in DOMAIN Uppercase : Uppercase[i] = ch]
    ELSE ch

\* s.lower()
str_lower(s) == [i \in DOMAIN s |-> lower_char(s[i])]

\* s[start:]: a Python slice from a 0-based position
str_from(s, start) == SubSeq(s, start + 1, Len(s))

\* s.lstrip()
str_lstrip(s) ==
    LET kept == {i \in DOMAIN s : s[i] \notin Whitespace} IN
    IF kept = {} THEN <<>>
    ELSE SubSeq(s, CHOOSE i \in kept : \A j \in kept : i <= j, Len(s))

\* s.strip()
str_strip(s) ==
    LET kept == {i \in DOMAIN s : s[i] \notin Whitespace} IN
    IF kept = {} THEN <<>>
    ELSE SubSeq(s, CHOOSE i \in kept : \A j \in kept : i <= j,
                   CHOOSE i \in kept : \A j \in kept : i >= j)

\* s.rstrip("/")
str_rstrip_slash(s) ==
    LET kept == {i \in DOMAIN s : s[i] # "/"} IN
    IF kept = {} THEN <<>>
    ELSE SubSeq(s, 1, CHOOSE i \in kept : \A j \in kept : i >= j)

\* s.startswith(prefix)
str_startswith(s, prefix) ==
    Len(prefix) <= Len(s) /\ SubSeq(s, 1, Len(prefix)) = prefix

\* s.replace(old, ""): every non-overlapping occurrence, left to right
RECURSIVE str_remove(_, _)
str_remove(s, old) ==
    IF s = <<>> THEN <<>>
    ELSE IF str_startswith(s, old) THEN str_remove(str_from(s, Len(old)), old)
    ELSE <<Head(s)>> \o str_remove(Tail(s), old)

\* [a-z0-9] under re.IGNORECASE
is_alnum(ch) == lower_char(ch) \in Range(Lowercase) \cup Range(Digits)

\* the string literals of the scripts
s_https_doi_org == <<"h", "t", "t", "p", "s", ":", "/", "/", "d", "o", "i", ".", "o", "r", "g", "/">>

s_http_doi_org == <<"h", "t", "t", "p", ":", "/", "/", "d", "o", "i", ".", "o", "r", "g", "/">>

s_https_dx_doi_org ==
    <<"h", "t", "t", "p", "s", ":", "/", "/", "d", "x", ".", "d", "o", "i", ".", "o", "r", "g", "/">>

s_http_dx_doi_org ==
    <<"h", "t", "t", "p", ":", "/", "/", "d", "x", ".", "d", "o", "i", ".", "o", "r", "g", "/">>

s_doi_colon == <<"d", "o", "i", ":">>

s_https_osf_io == <<"h", "t", "t", "p", "s", ":", "/", "/", "o", "s", "f", ".", "i", "o", "/">>

(***************************************************************************)
(* The field normalizers.                                                  *)
(***************************************************************************)
\* re.search(r"/([a-z0-9]{lo,hi})(?:[_/]|$)", u, re.IGNORECASE): the matches
\* <<i, k>>, a "/" at position i followed by k alphanumerics and then by
\* "_", "/" or the end of the string
guid_matches(u, lo, hi) ==
    {m \in (DOMAIN u) \X (lo..hi) :
        /\ u[m[1]] = "/"
        /\ m[1] + m[2] <= Len(u)
        /\ \A j \in 1..m[2] : is_alnum(u[m[1] + j])
        /\ \/ m[1] + m[2] = Len(u)
           \/ u[m[1] + m[2] + 1] \in {"_", "/"}}

\* group(1) of the match re.search returns: the leftmost start, and at that
\* start the longest run the greedy quantifier can keep
guid_group(u, lo, hi) ==
    LET ms == guid_matches(u, lo, hi)
        m  == CHOOSE x \in ms : \A y \in ms :
                \/ x[1] < y[1]
                \/ x[1] = y[1] /\ x[2] >= y[2]
    IN  SubSeq(u, m[1] + 1, m[1] + m[2])

\* re.split(r"[/?#]", s)[-1]
last_token(s) ==
    LET cuts == {i \in DOMAIN s : s[i] \in {"/", "?", "#"}} IN
    IF cuts = {} THEN s
    ELSE str_from(s, CHOOSE i \in cuts : \A j \in cuts : i >= j)

\* dashboard_v4.py: parse_guid_from_url(url)
parse_guid_from_url(url) ==
    LET u == str_strip(url) IN
    IF url = <<>> THEN <<>>
    ELSE IF guid_matches(u, 4, 10) # {} THEN guid_group(u, 4, 10)
    ELSE last_token(str_rstrip_slash(u))

\* dashboard_v6.py: extract_osf_guid(value)
extract_osf_guid(value) ==
    LET v == str_strip(value) IN
    IF value = <<>> THEN <<>>
    ELSE IF Len(v) = 5 /\ \A i \in DOMAIN v : is_alnum(v[i]) THEN str_lower(v)
    ELSE IF guid_matches(v, 5, 5) # {} THEN str_lower(guid_group(v, 5, 5))
    ELSE <<>>

\* dashboard_v4.py: parse_doi_display(doi)
parse_doi_display(doi) ==
    IF doi = <<>> THEN <<>>
    ELSE str_remove(str_remove(str_strip(doi), s_https_doi_org), s_http_doi_org)

\* dashboard_v4.py: render_table._doi_url(x)
_doi_url(x) ==
    LET d == parse_doi_display(x) IN
    IF d # <<>> THEN s_https_doi_org \o d ELSE <<>>

\* re.sub(r"^https?://(dx\.)?doi\.org/", "", v, flags=re.IGNORECASE)
sub_doi_org(v) ==
    LET prefixes == {p \in {s_https_doi_org, s_http_doi_org,
                            s_https_dx_doi_org, s_http_dx_doi_org} :
                        /\ Len(p) <= Len(v)
                        /\ str_lower(SubSeq(v, 1, Len(p))) = p}
    IN  IF prefixes = {} THEN v
        ELSE str_from(v, Len(CHOOSE p \in prefixes : TRUE))

\* re.sub(r"^doi:\s*", "", v, flags=re.IGNORECASE)
sub_doi_colon(v) ==
    IF Len(v) >= 4 /\ str_lower(SubSeq(v, 1, 4)) = s_doi_colon
    THEN str_lstrip(str_from(v, 4))
    ELSE v

\* dashboard_v6.py: normalize_doi(value)
normalize_doi(value) ==
    IF value = <<>> THEN <<>>
    ELSE str_strip(sub_doi_colon(sub_doi_org(str_strip(value))))

\* dashboard_v6.py: make_doi_url(doi_or_url)
make_doi_url(doi_or_url) ==
    LET doi == normalize_doi(doi_or_url) IN
    IF doi # <<>> THEN s_https_doi_org \o doi ELSE <<>>

(***************************************************************************)
(* Python numbers.  A float is kept in tenths (the numeric cells hold at   *)
(* most one decimal and no sign), next to the two values that are not      *)
(* numbers: nan and inf.                                                   *)
(***************************************************************************)
\* Python's None, told apart from every str: its element is not a character
None == <<"None">>

\* str(x)
py_str(x) == IF x = None THEN <<"N", "o", "n", "e">> ELSE x

digit_of(ch) == (CHOOSE i \in DOMAIN Digits : Digits[i] = ch) - 1

\* the number a run of decimal digits writes
RECURSIVE digits_value(_)
digits_value(ds) ==
    IF ds = <<>> THEN 0
    ELSE 10 * digits_value(SubSeq(ds, 1, Len(ds) - 1)) + digit_of(ds[Len(ds)])

\* a Python number: a float, nan, inf, or the exception raised in its place
Float(tenths) == [kind |-> "float", tenths |-> tenths]

FloatNaN == [kind |-> "nan", tenths |-> 0]

FloatInf == [kind |-> "inf", tenths |-> 0]

Raises(error) == [kind |-> error, tenths |-> 0]

\* None where a number is expected
NoNumber == [kind |-> "None", tenths |-> 0]

Exceptions ==
    {"ValueError", "TypeError", "OverflowError", "IndexError", "KeyError",
     "AttributeError"}

failed(x) == x.kind \in Exceptions

\* float(x) of Python: surrounding whitespace is dropped; "nan", "inf" and
\* "infinity" are floats in any letter case; a "," is not part of a number
\* the float a decimal numeral writes, its integer part before and its
\* fraction after the point; a numeral has a digit
decimal(int_part, frac_part) ==
    IF Len(int_part) + Len(frac_part) >= 1
    THEN Float(10 * digits_value(int_part)
               + (IF frac_part = <<>> THEN 0 ELSE digit_of(frac_part[1])))
    ELSE Raises("ValueError")

\* float(t) of a str without surrounding whitespace, lower case in low
float_of(t, low) ==
    LET dots == {i \in DOMAIN t : t[i] = "."}
        dot  == CHOOSE i \in dots : TRUE
    IN
    IF low = <<"n", "a", "n">> THEN FloatNaN
    ELSE IF low \in {<<"i", "n", "f">>, <<"i", "n", "f", "i", "n", "i", "t", "y">>}
         THEN FloatInf
    ELSE IF \E i \in DOMAIN t : t[i] \notin Range(Digits) \cup {"."}
         THEN Raises("ValueError")
    ELSE IF dots = {} THEN decimal(t, <<>>)
    ELSE IF Cardinality(dots) = 1
         THEN decimal(SubSeq(t, 1, dot - 1), SubSeq(t, dot + 1, Len(t)))
    ELSE Raises("ValueError")

py_float(x) ==
    IF x = None THEN Raises("TypeError")
    ELSE float_of(str_strip(x), str_lower(str_strip(x)))

\* int(f) of Python for a float: nan raises ValueError, inf OverflowError;
\* an int is kept in tenths like a float
py_int(f) ==
    CASE failed(f)       -> f
      [] f.kind = "nan"  -> Raises("ValueError")
      [] f.kind = "inf"  -> Raises("OverflowError")
      [] f.kind = "None" -> Raises("TypeError")
      [] OTHER           -> Float(10 * (f.tenths \div 10))

\* the int a number record holds
int_of(n) == n.tenths \div 10

\* dashboard_v6.py: _as_int(val)
_as_int(val) ==
    LET n == py_int(py_float(val)) IN
    IF failed(n) THEN 0 ELSE int_of(n)

\* _as_int(x) of a number x: int(float(x)), 0 when int raises
py_int_or0(x) ==
    LET n == py_int(x) IN
    IF failed(n) THEN Float(0) ELSE n

\* dashboard_v6.py: _as_float(val); 0.0 is Float(0)
_as_float(val) ==
    LET f == py_float(val) IN
    IF failed(f) THEN Float(0) ELSE f

\* dashboard_v4.py: render_summary._int(x)
_int(x) ==
    LET n == py_int(py_float(str_strip(py_str(x)))) IN
    IF failed(n) THEN 0 ELSE int_of(n)

\* dashboard_v4.py: summarize_counts._to_float(x)
_to_float(x) ==
    LET f == py_float(str_strip(py_str(x))) IN
    IF failed(f) THEN Float(0) ELSE f

\* a + b of two numbers
add(a, b) ==
    CASE failed(a) -> a
      [] failed(b) -> b
      [] a.kind = "nan" \/ b.kind = "nan" -> FloatNaN
      [] a.kind = "inf" \/ b.kind = "inf" -> FloatInf
      [] OTHER -> Float(a.tenths + b.tenths)

\* sum(xs) of a list of numbers
RECURSIVE sum(_)
sum(xs) == IF xs = <<>> THEN Float(0) ELSE add(Head(xs), sum(Tail(xs)))

\* pd.to_numeric(cell, errors="coerce"): what is not a number becomes NaN
to_numeric(cell) ==
    LET f == py_float(cell) IN
    IF cell = <<>> \/ failed(f) THEN FloatNaN ELSE f

\* x.fillna(0)
fillna0(x) == IF x.kind = "nan" THEN Float(0) ELSE x

\* the bug of a test for a missing value that never finds one
isna_never(x) == FALSE

\* pd.isna(x)
isna(x) == x.kind \in {"nan", "None"}

\* x or 0 for a number: None and 0 are falsy, nan is not
or0(x) == IF x.kind = "None" \/ (x.kind = "float" /\ x.tenths = 0) THEN Float(0) ELSE x

\* a or b for a str or None
or_else(a, b) == IF a = None \/ a = <<>> THEN b ELSE a

(***************************************************************************)
(* The dataset loaders.  A CSV is a record [columns, rows]; the frame      *)
(* pandas reads from it also carries the index, the position of each row   *)
(* in the file, which every selection of rows keeps.  An empty cell is     *)
(* <<>>: "" after fillna("") in dashboard_v4.py and dashboard_v6.py, NaN   *)
(* in dashboard.py.                                                        *)
(***************************************************************************)
s_summary == <<"s", "u", "m", "m", "a", "r", "y">>

s_branding == <<"b", "r", "a", "n", "d", "i", "n", "g">>

s_user == <<"u", "s", "e", "r">>

s_project == <<"p", "r", "o", "j", "e", "c", "t">>

s_registration == <<"r", "e", "g", "i", "s", "t", "r", "a", "t", "i", "o", "n">>

s_preprint == <<"p", "r", "e", "p", "r", "i", "n", "t">>

\* {} of Python, and an empty pd.Series
EmptyDict == [k \in {} |-> <<>>]

\* d.get(key): None when the key is missing
dict_get(d, key) == IF key \in DOMAIN d THEN d[key] ELSE None

\* pd.read_csv(path, dtype=str): the rows in file order, indexed from 0
read_csv(csv) ==
    [columns |-> csv.columns,
     rows    |-> csv.rows,
     index   |-> [i \in DOMAIN csv.rows |-> i - 1]]

\* df.columns = names: the columns renamed, the cells kept
set_columns(df, names) ==
    LET cols == {names[c] : c \in df.columns} IN
    [columns |-> cols,
     index   |-> df.index,
     rows    |-> [i \in DOMAIN df.rows |->
                    [c \in cols |->
                        df.rows[i][CHOOSE o \in df.columns : names[o] = c]]]]

\* dashboard_v4.py: c.strip() without a byte order mark, on the headers a
\* file can carry
strip_col(c) ==
    CASE c = " row_type" -> "row_type"
      [] OTHER           -> c

\* dashboard_v6.py: re.sub(r"\s+", "_", c.strip().lower()), on the headers a
\* file can carry
normalize_col(c) ==
    CASE c = " row_type" -> "row_type"
      [] c = "Row Type"  -> "row_type"
      [] OTHER           -> c

\* dashboard_v4.py: df.columns = _normalize_cols(df.columns.tolist())
_normalize_cols_v4(df) == set_columns(df, [c \in df.columns |-> strip_col(c)])

\* dashboard_v6.py: df.columns = _normalize_cols(original_cols)
_normalize_cols(df) == set_columns(df, [c \in df.columns |-> normalize_col(c)])

\* the elements of a sequence at the positions of a mask, in order
select(s, mask) ==
    [i \in 1..Cardinality(mask) |->
        s[CHOOSE k \in mask : Cardinality({j \in mask : j <= k}) = i]]

\* df[mask]: the rows where the boolean mask holds, with their index
loc(df, mask) ==
    [columns |-> df.columns,
     rows    |-> select(df.rows, mask),
     index   |-> select(df.index, mask)]

\* the bug of a selection that keeps every row
where_eq_all(df, field, value) ==
    loc(df, DOMAIN df.rows)

\* df[df[field] == value]
where_eq(df, field, value) ==
    loc(df, {i \in DOMAIN df.rows : df.rows[i][field] = value})

\* df[df[field].str.lower() == value]
where_lower_eq(df, field, value) ==
    loc(df, {i \in DOMAIN df.rows : str_lower(df.rows[i][field]) = value})

\* the bug of taking the last row where the first is meant
head_last(df, n) ==
    loc(df, {i \in DOMAIN df.rows : i > Len(df.rows) - n})

\* df.head(n)
head(df, n) ==
    loc(df, {i \in DOMAIN df.rows : i <= n})

\* the bug of a missing discriminator that is filled in instead of refused
ensure_row_type_lenient(df) ==
    LET d == _normalize_cols_v4(df) IN
    [raised |-> "none",
     df     |-> [columns |-> d.columns \cup {"row_type"},
                 index   |-> d.index,
                 rows    |-> [i \in DOMAIN d.rows |->
                                [c \in d.columns \cup {"row_type"} |->
                                    IF c # "row_type" THEN d.rows[i][c]
                                    ELSE IF c \in d.columns
                                         THEN str_lower(str_strip(d.rows[i][c]))
                                         ELSE <<>>]]]]

\* dashboard_v4.py: ensure_row_type(df)
ensure_row_type(df) ==
    LET d == _normalize_cols_v4(df) IN
    IF "row_type" \notin d.columns
    THEN [raised |-> "ValueError"]
    ELSE [raised |-> "none",
          df     |-> [columns |-> d.columns,
                      index   |-> d.index,
                      rows    |-> [i \in DOMAIN d.rows |->
                                    [c \in d.columns |->
                                        IF c # "row_type" THEN d.rows[i][c]
                                        ELSE str_lower(str_strip(d.rows[i][c]))]]]]

\* dfx["osf_guid"] = ...; dfx["doi_display"] = ... of load_data, dashboard_v4.py
helper_columns(dfx) ==
    [columns |-> dfx.columns \cup {"osf_guid", "doi_display"},
     index   |-> dfx.index,
     rows    |-> [i \in DOMAIN dfx.rows |->
        [c \in dfx.columns \cup {"osf_guid", "doi_display"} |->
            CASE c = "osf_guid" ->
                    IF "osf_link" \in dfx.columns
                    THEN parse_guid_from_url(dfx.rows[i]["osf_link"]) ELSE <<>>
              [] c = "doi_display" ->
                    IF "doi" \in dfx.columns
                    THEN parse_doi_display(dfx.rows[i]["doi"]) ELSE <<>>
              [] OTHER -> dfx.rows[i][c]]]]

\* dashboard_v4.py: load_data(path), the file path of main
load_data_v4(csv) ==
    LET e == ensure_row_type(read_csv(csv)) IN
    IF e.raised # "none" THEN [raised |-> e.raised]
    ELSE
    LET df           == e.df
        branding_row == head(where_eq(df, "row_type", s_branding), 1)
        summary_row  == head(where_eq(df, "row_type", s_summary), 1)
    IN  [raised        |-> "none",
         df            |-> df,
         branding      |-> IF len(branding_row) = 1 THEN branding_row.rows[1]
                           ELSE IF len(summary_row) = 1 THEN summary_row.rows[1]
                           ELSE EmptyDict,
         summary       |-> IF len(summary_row) = 1 THEN summary_row.rows[1]
                           ELSE EmptyDict,
         projects      |-> helper_columns(where_eq(df, "row_type", s_project)),
         registrations |-> helper_columns(where_eq(df, "row_type", s_registration)),
         preprints     |-> helper_columns(where_eq(df, "row_type", s_preprint))]

\* dashboard_v4.py: main, the upload path (no CSV found next to the script)
main_upload(csv) ==
    LET e == ensure_row_type(read_csv(csv)) IN
    IF e.raised # "none" THEN [raised |-> e.raised]
    ELSE
    LET df          == e.df
        brand_rows  == loc(df, {i \in DOMAIN df.rows :
                            df.rows[i]["row_type"] \in {s_branding, s_summary}})
        summary_row == where_eq(df, "row_type", s_summary)
    IN  \* .head(1).iloc[0] of a selection without rows
        IF len(df) # 0 /\ len(brand_rows) = 0 THEN [raised |-> "IndexError"]
        ELSE
        [raised        |-> "none",
         df            |-> df,
         branding      |-> IF len(df) # 0 THEN head(brand_rows, 1).rows[1]
                           ELSE EmptyDict,
         summary       |-> IF len(summary_row) # 0 THEN head(summary_row, 1).rows[1]
                           ELSE EmptyDict,
         projects      |-> where_eq(df, "row_type", s_project),
         registrations |-> where_eq(df, "row_type", s_registration),
         preprints     |-> where_eq(df, "row_type", s_preprint)]

\* dashboard_v6.py: load_data(path)
load_data_v6(csv) ==
    LET df == _normalize_cols(read_csv(csv)) IN
    IF "row_type" \notin df.columns THEN [raised |-> "ValueError"]
    ELSE
    LET branding_row  == head(where_lower_eq(df, "row_type", s_summary), 1)
        summary_row   == head(where_lower_eq(df, "row_type", s_summary), 1)
        projects      == where_lower_eq(df, "row_type", s_project)
        registrations == where_lower_eq(df, "row_type", s_registration)
        preprints     == where_lower_eq(df, "row_type", s_preprint)
        b             == branding_row.rows[1]
        r             == summary_row.rows[1]
        get0(key)     == IF key \in DOMAIN r THEN r[key] ELSE <<"0">>
        numbers(col)  == [i \in DOMAIN projects.rows |->
                            fillna0(to_numeric(projects.rows[i][col]))]
    IN  \* projects.get(col, "0") of a missing column is the str "0";
        \* pd.to_numeric of a scalar is a scalar, which has no fillna
        IF /\ len(summary_row) # 0
           /\ {"public_file_count", "storage_gb"} \ projects.columns # {}
        THEN [raised |-> "AttributeError"]
        ELSE
        [raised        |-> "none",
         df            |-> df,
         branding      |->
            IF len(branding_row) = 0 THEN EmptyDict
            ELSE [institution_name |->
                        or_else(dict_get(b, "branding_institution_name"),
                            or_else(dict_get(b, "name_or_title"), <<>>)),
                  logo_url |->
                        or_else(dict_get(b, "branding_institution_logo_url"), <<>>),
                  report_month |->
                        or_else(dict_get(b, "report_month"),
                            or_else(dict_get(b, "report_yearmonth"), <<>>))],
         summary       |->
            IF len(summary_row) = 0 THEN EmptyDict
            ELSE [total_users         |-> Float(10 * _as_int(get0("total_users"))),
                  monthly_logged_in   |->
                        Float(10 * _as_int(get0("summary_monthly_logged_in_users"))),
                  monthly_active      |->
                        Float(10 * _as_int(get0("summary_monthly_active_users"))),
                  projects_total      |-> Float(10 * len(projects)),
                  registrations_total |-> Float(10 * len(registrations)),
                  preprints_total     |-> Float(10 * len(preprints)),
                  public_file_total   |->
                        sum([i \in DOMAIN projects.rows |->
                                py_int_or0(numbers("public_file_count")[i])]),
                  storage_gb_total    |-> sum(numbers("storage_gb"))],
         projects      |-> projects,
         registrations |-> registrations,
         preprints     |-> preprints]

\* dashboard_v6.py: render_summary(summary), the value of each st.metric
render_summary_v6(summary) ==
    [raised |-> "none",
     values |-> [k \in {"total_users", "monthly_logged_in", "monthly_active",
                        "projects_total", "registrations_total", "preprints_total",
                        "public_file_total", "storage_gb_total"} |->
                    IF k \in DOMAIN summary THEN summary[k] ELSE Float(0)]]

\* the exception of the first number of a list that is one, "none" otherwise
first_error(xs) ==
    LET bad == {i \in DOMAIN xs : failed(xs[i])} IN
    IF bad = {} THEN "none"
    ELSE xs[CHOOSE i \in bad : \A j \in bad : i <= j].kind

\* a or b or c of summary.get(...) values; the last alternative is the int 0
or_chain(alternatives) ==
    LET truthy == {i \in DOMAIN alternatives : or_else(alternatives[i], <<>>) # <<>>} IN
    IF truthy = {} THEN <<"0">>
    ELSE alternatives[CHOOSE i \in truthy : \A j \in truthy : i <= j]

\* dashboard_v4.py: summarize_counts(summary, projects, registrations, preprints)
summarize_counts(summary, projects, registrations, preprints) ==
    [OSF_Preprints           |-> Float(10 * len(preprints)),
     Total_Public_File_Count |->
        _to_float(or_chain(<<dict_get(summary, "public_file_count"),
                             dict_get(summary, "total_public_file_count")>>)),
     Total_Storage_in_GB     |->
        _to_float(or_chain(<<dict_get(summary, "storage_gb"),
                             dict_get(summary, "total_storage_gb"),
                             dict_get(summary, "total_storage_in_gb")>>)),
     Projects_total          |-> Float(10 * len(projects)),
     Registrations_total     |-> Float(10 * len(registrations))]

\* the cards of render_summary, dashboard_v4.py, from the counts and the
\* public file count as an int
summary_cards(summary, counts, files) ==
    IF failed(files) THEN [raised |-> files.kind]
    ELSE
    [raised |-> "none",
     values |->
        [Total_Users |->
            Float(10 * _int(or_chain(<<dict_get(summary, "total_users"),
                                       dict_get(summary, "users_total"),
                                       dict_get(summary, "users_count")>>))),
         Total_Monthly_Logged_in_Users |->
            Float(10 * _int(or_chain(
                <<dict_get(summary, "summary_monthly_logged_in_users")>>))),
         Total_Monthly_Active_Users |->
            Float(10 * _int(or_chain(
                <<dict_get(summary, "summary_monthly_active_users")>>))),
         Projects                |-> py_int(counts.Projects_total),
         Registrations           |-> py_int(counts.Registrations_total),
         Preprints               |-> py_int(counts.OSF_Preprints),
         Total_Public_File_Count |-> files,
         Total_Storage_in_GB     |-> or0(counts.Total_Storage_in_GB)]]

\* the cards given the counts
summary_counts_cards(summary, counts) ==
    summary_cards(summary, counts, py_int(or0(counts.Total_Public_File_Count)))

\* dashboard_v4.py: render_summary(summary, projects, registrations, preprints),
\* the value of each card
render_summary(summary, projects, registrations, preprints) ==
    summary_counts_cards(summary,
        summarize_counts(summary, projects, registrations, preprints))

s_default_institution ==
    <<"O", "S", "F", " ", "I", "n", "s", "t", "i", "t", "u", "t", "i", "o", "n", " ", "[", "D", "e", "m", "o", "]">>

\* str(x) of a cell of dashboard.py, where an empty cell is NaN
str_of_cell(x) == IF x = <<>> THEN <<"n", "a", "n">> ELSE x

\* dashboard.py: the module-level row split and header values
row_split(csv) ==
    LET data == read_csv(csv) IN
    IF "object_type" \notin data.columns THEN [raised |-> "KeyError"]
    ELSE
    LET summary_row  == where_eq(data, "object_type", s_summary)
        summary_meta == IF len(summary_row) # 0 THEN summary_row.rows[1] ELSE EmptyDict
        data_objects == loc(data, {i \in DOMAIN data.rows :
                                    data.rows[i]["object_type"] # s_summary})
        users_raw    == where_eq(data_objects, "object_type", s_user)
        months       == IF "report_yearmonth" \in users_raw.columns
                        THEN {i \in DOMAIN users_raw.rows :
                                str_strip(users_raw.rows[i]["report_yearmonth"]) # <<>>}
                        ELSE {}
        label        == IF summary_meta = EmptyDict THEN <<>>
                        ELSE IF "report_month" \in DOMAIN summary_meta
                             THEN str_strip(str_of_cell(summary_meta["report_month"]))
                             ELSE <<>>
    IN  [raised        |-> "none",
         df            |-> data,
         summary       |-> summary_meta,
         branding      |->
            [INSTITUTION_NAME |->
                IF summary_meta # EmptyDict
                    /\ "branding_institution_name" \in DOMAIN summary_meta
                THEN str_of_cell(summary_meta["branding_institution_name"])
                ELSE s_default_institution,
             REPORT_MONTH_LABEL |->
                IF label = <<>> /\ months # {}
                THEN str_strip(users_raw.rows[CHOOSE i \in months :
                                                \A j \in months : i <= j]["report_yearmonth"])
                ELSE label],
         users         |-> users_raw,
         projects      |-> where_eq(data_objects, "object_type", s_project),
         registrations |-> where_eq(data_objects, "object_type", s_registration),
         preprints     |-> where_eq(data_objects, "object_type", s_preprint)]

\* total = (a or 0) + (b or 0) if pd.notna(a) or pd.notna(b) else len(rows)
written_total(a, b, rows) ==
    IF ~isna(a) \/ ~isna(b) THEN add(or0(a), or0(b)) ELSE Float(10 * rows)

\* if pd.isna(written): written = derived
written_or(written, derived) == IF isna(written) THEN derived ELSE written

\* return dict(...): the first conversion that raises ends the call
metrics_dict(values) ==
    LET error == first_error(<<values.total_users, values.total_projects,
                               values.total_regs, values.total_preprints,
                               values.total_public_files, values.total_storage_gb,
                               values.total_logged_in_users, values.total_active_users>>)
    IN  IF error # "none" THEN [raised |-> error]
        ELSE [raised |-> "none", values |-> values]

\* dashboard.py: compute_summary_metrics(), on the globals of the row split
compute_summary_metrics(summary_meta, users_raw, projects_raw, regs_raw, preprints_raw) ==
    LET meta(col) ==
            IF summary_meta = EmptyDict \/ col \notin DOMAIN summary_meta THEN NoNumber
            ELSE to_numeric(summary_meta[col])
        column_sum(col) ==
            IF col \notin users_raw.columns THEN Float(0)
            ELSE sum([i \in DOMAIN users_raw.rows |->
                        fillna0(to_numeric(users_raw.rows[i][col]))])
        notna_count(col) ==
            IF col \notin users_raw.columns THEN Float(0)
            ELSE Float(10 * Cardinality({i \in DOMAIN users_raw.rows :
                                            users_raw.rows[i][col] # <<>>}))
    IN  metrics_dict(
            [total_users           |-> py_int(Float(10 * len(users_raw))),
             total_projects        |->
                py_int(written_total(meta("projects_public_count"),
                                     meta("projects_private_count"),
                                     len(projects_raw))),
             total_regs            |->
                py_int(written_total(meta("registrations_public_count"),
                                     meta("registrations_embargoed_count"),
                                     len(regs_raw))),
             total_preprints       |-> py_int(Float(10 * len(preprints_raw))),
             total_public_files    |-> py_int(column_sum("public_file_count")),
             total_storage_gb      |-> column_sum("storage_gb"),
             total_logged_in_users |->
                py_int(or0(written_or(meta("summary_monthly_logged_in_users"),
                                      notna_count("month_last_login")))),
             total_active_users    |->
                py_int(or0(written_or(meta("summary_monthly_active_users"),
                                      notna_count("month_last_active"))))])

(***************************************************************************)
(* SpecLoad: one run of a script's loading code per step, on a CSV drawn   *)
(* from a bounded set.  `call` records the file, what the loader returned  *)
(* or raised, and the values the summary tab shows.                        *)
(***************************************************************************)
\* most rows of a CSV
MaxCsvRows == 2

\* the columns a file can carry next to its discriminator column
DataColumns ==
    {"branding_institution_name", "summary_monthly_logged_in_users",
     "projects_public_count", "projects_private_count", "public_file_count",
     "storage_gb", "osf_link", "doi", "month_last_login"}

\* a file without the numeric and link columns
CoreColumns ==
    {"branding_institution_name", "summary_monthly_logged_in_users",
     "projects_public_count", "projects_private_count", "month_last_login"}

\* the header of the discriminator column; "" is a file without one
Headers == {"row_type", " row_type", "Row Type", "object_type", ""}

\* the rows of the files: the discriminator cell and the cells that are not empty
RowSeeds ==
    {[kind  |-> <<"s", "u", "m", "m", "a", "r", "y">>,
      cells |-> ("branding_institution_name" :> <<"U">>) @@
                ("summary_monthly_logged_in_users" :> <<"7">>) @@
                ("projects_public_count" :> <<"1", "2", "0">>) @@
                ("projects_private_count" :> <<"3", "0">>) @@
                ("public_file_count" :> <<"9">>) @@
                ("storage_gb" :> <<"1", ".", "5">>)],
     [kind  |-> <<"s", "u", "m", "m", "a", "r", "y">>,
      cells |-> ("branding_institution_name" :> <<"V">>) @@
                ("summary_monthly_logged_in_users" :> <<"1", ",", "2", "3", "4">>) @@
                ("projects_public_count" :> <<"3">>)],
     [kind  |-> <<"S", "u", "m", "m", "a", "r", "y">>,
      cells |-> EmptyDict],
     [kind  |-> <<"p", "r", "o", "j", "e", "c", "t">>,
      cells |-> ("osf_link" :> <<"h", "t", "t", "p", "s", ":", "/", "/", "o", "s", "f", ".", "i", "o", "/", "k", "r", "6", "8", "a", "/">>) @@
                ("doi" :> <<"h", "t", "t", "p", "s", ":", "/", "/", "d", "o", "i", ".", "o", "r", "g", "/", "1", "0", ".", "1", "/", "x">>) @@
                ("public_file_count" :> <<"2">>) @@
                ("storage_gb" :> <<"0", ".", "5">>)],
     [kind  |-> <<" ", "P", "r", "o", "j", "e", "c", "t", " ">>,
      cells |-> ("osf_link" :> <<"k", "r", "6", "8", "a">>)],
     [kind  |-> <<"r", "e", "g", "i", "s", "t", "r", "a", "t", "i", "o", "n">>,
      cells |-> ("doi" :> <<"d", "o", "i", ":", "1", "0", ".", "1", "/", "x">>)],
     [kind  |-> <<"P", "R", "E", "P", "R", "I", "N", "T">>,
      cells |-> EmptyDict],
     [kind  |-> <<"p", "r", "e", "p", "r", "i", "n", "t">>,
      cells |-> ("osf_link" :> <<"h", "t", "t", "p", "s", ":", "/", "/", "o", "s", "f", ".", "i", "o", "/", "a", "b", "1", "2", "c", "_", "v", "2", "/">>)],
     [kind  |-> <<"u", "s", "e", "r">>,
      cells |-> ("month_last_login" :> <<"1">>) @@
                ("public_file_count" :> <<"4">>)],
     [kind  |-> <<"u", "s", "e", "r">>,
      cells |-> EmptyDict],
     [kind  |-> <<"b", "r", "a", "n", "d", "i", "n", "g">>,
      cells |-> ("branding_institution_name" :> <<"W">>)],
     [kind  |-> <<"n", "o", "t", "e">>,
      cells |-> EmptyDict]}

CsvRows(header, columns) ==
    {[c \in columns \cup ({header} \ {""}) |->
        IF c = header THEN seed.kind
        ELSE IF c \in DOMAIN seed.cells THEN seed.cells[c]
        ELSE <<>>] : seed \in RowSeeds}

Csvs ==
    UNION {{[columns |-> columns \cup ({header} \ {""}), rows |-> rs] :
                rs \in SeqUpTo(CsvRows(header, columns), MaxCsvRows)} :
            header \in Headers, columns \in {DataColumns, CoreColumns}}

\* the summary tab is not reached when the loader raised
NotRun == [raised |-> "not run"]

\* one run of a script on a file, up to the summary tab:
\*   load_data_v4  dashboard_v4.py main with a CSV next to the script
\*   main_upload   dashboard_v4.py main with an uploaded CSV
\*   load_data_v6  dashboard_v6.py main
\*   row_split     dashboard.py, module level, and compute_summary_metrics
Ran(fn, csv, loaded) ==
    [fn |-> fn, csv |-> csv, result |-> loaded,
         metrics |->
            CASE loaded.raised # "none" -> NotRun
              [] fn = "load_data_v6" -> render_summary_v6(loaded.summary)
              [] fn = "row_split" ->
                    compute_summary_metrics(loaded.summary, loaded.users,
                        loaded.projects, loaded.registrations, loaded.preprints)
              [] OTHER ->
                    render_summary(loaded.summary, loaded.projects,
                        loaded.registrations, loaded.preprints)]

\* the run of one load path on a file
Run(fn, csv) ==
    Ran(fn, csv, CASE fn = "load_data_v4" -> load_data_v4(csv)
                   [] fn = "main_upload"  -> main_upload(csv)
                   [] fn = "load_data_v6" -> load_data_v6(csv)
                   [] fn = "row_split"    -> row_split(csv))

Call_load_data_v4 ==
    /\ call = NoCall
    /\ \E csv \in Csvs : call' = Run("load_data_v4", csv)
    /\ UNCHANGED session_vars

Call_main_upload ==
    /\ call = NoCall
    /\ \E csv \in Csvs : call' = Run("main_upload", csv)
    /\ UNCHANGED session_vars

Call_load_data_v6 ==
    /\ call = NoCall
    /\ \E csv \in Csvs : call' = Run("load_data_v6", csv)
    /\ UNCHANGED session_vars

Call_row_split ==
    /\ call = NoCall
    /\ \E csv \in Csvs : call' = Run("row_split", csv)
    /\ UNCHANGED session_vars

NextLoad ==
    \/ Call_load_data_v4
    \/ Call_main_upload
    \/ Call_load_data_v6
    \/ Call_row_split
    \/ Return

SpecLoad == InitFn /\ [][NextLoad]_vars

(***************************************************************************)
(* Properties of the loaders.                                              *)
(***************************************************************************)
Loaders == {"load_data_v4", "main_upload", "load_data_v6", "row_split"}

\* the name under which a script reads a column of the file
ReadAs(fn, col) ==
    CASE fn = "row_split"    -> col
      [] fn = "load_data_v6" -> normalize_col(col)
      [] OTHER               -> strip_col(col)

\* the columns of the file that the script reads as its discriminator column
DiscriminatorColumns(c) ==
    {col \in c.csv.columns :
        ReadAs(c.fn, col) = IF c.fn = "row_split" THEN "object_type" ELSE "row_type"}

\* the file carries the discriminator column the script reads
HasDiscriminator(c) == DiscriminatorColumns(c) # {}

\* C11: loading a file without the discriminator column raises, and the run
\* produces nothing: no frame, no summary, no entity collection, no metric.
C11_MissingDiscriminatorAborts ==
    (call.fn \in Loaders /\ ~HasDiscriminator(call)) =>
        /\ call.result.raised \in Exceptions
        /\ DOMAIN call.result = {"raised"}
        /\ call.metrics = NotRun

\* an uploaded file with rows and no discriminator column was refused
C11_Witness ==
    /\ call.fn = "main_upload"
    /\ ~HasDiscriminator(call)
    /\ Len(call.csv.rows) = MaxCsvRows
    /\ call.result.raised = "ValueError"

\* the discriminator column of the file
Discriminator(c) == CHOOSE col \in DiscriminatorColumns(c) : TRUE

\* the row kind a cell of the discriminator column stands for
KindOf(cell) == str_lower(str_strip(cell))

\* the kinds of the rows of the file, in file order
Kinds(c) == [i \in DOMAIN c.csv.rows |-> KindOf(c.csv.rows[i][Discriminator(c)])]

\* C12 as stated: a file with the discriminator column and neither a summary
\* nor a branding row loads on every path, and the summary tab is drawn.
C12_Original ==
    (/\ call.fn \in Loaders
     /\ HasDiscriminator(call)
     /\ \A i \in DOMAIN call.csv.rows : Kinds(call)[i] \notin {s_summary, s_branding}) =>
        /\ call.result.raised = "none"
        /\ call.metrics.raised = "none"

\* the file positions (0-based, the pandas index) of the rows of a collection
Members(frame) == Range(frame.index)

\* the file positions of the rows whose trimmed, lowercased kind is `kind`
RowsOfKind(c, kind) == {i - 1 : i \in {j \in DOMAIN c.csv.rows : Kinds(c)[j] = kind}}

\* the run loaded the file
Loaded(c) == c.fn \in Loaders /\ c.result.raised = "none"

\* C13 as stated: a row lands in the collection of its trimmed, lowercased
\* kind, however the kind is written in the file.
C13_Original ==
    Loaded(call) =>
        /\ Members(call.result.projects) = RowsOfKind(call, s_project)
        /\ Members(call.result.registrations) = RowsOfKind(call, s_registration)
        /\ Members(call.result.preprints) = RowsOfKind(call, s_preprint)

\* every kind of the file is written the way the scripts spell it: lower case,
\* no padding (C13 is about the other spellings)
Canonical(c) ==
    \A i \in DOMAIN c.csv.rows : c.csv.rows[i][Discriminator(c)] = Kinds(c)[i]

\* the file without the summary rows that follow the first one
WithoutLaterSummaries(c) ==
    LET first == CHOOSE i \in RowsOfKind(c, s_summary) :
                    \A j \in RowsOfKind(c, s_summary) : i <= j
    IN  [columns |-> c.csv.columns,
         rows    |-> select(c.csv.rows,
                        {i \in DOMAIN c.csv.rows :
                            Kinds(c)[i] # s_summary \/ i - 1 = first})]

\* the collections a load returns
Collections(c) ==
    {c.result[k] : k \in DOMAIN c.result \cap
                        {"users", "projects", "registrations", "preprints"}}

\* C14: of several summary rows the first in file order is the one used: the
\* summary, the branding and every metric are those of the file without the
\* later summary rows, and no summary row is in an entity collection.
C14_FirstSummaryWins ==
    (/\ Loaded(call)
     /\ Canonical(call)
     /\ Cardinality(RowsOfKind(call, s_summary)) >= 2) =>
        LET alone == Run(call.fn, WithoutLaterSummaries(call)) IN
        /\ call.result.summary = alone.result.summary
        /\ call.result.branding = alone.result.branding
        /\ call.metrics = alone.metrics
        /\ \A frame \in Collections(call) :
                Members(frame) \cap RowsOfKind(call, s_summary) = {}

\* two summary rows with different cells were loaded and the metrics drawn
C14_Witness ==
    /\ Loaded(call)
    /\ Canonical(call)
    /\ Cardinality(RowsOfKind(call, s_summary)) >= 2
    /\ call.csv.rows[1] # call.csv.rows[2]
    /\ call.metrics.raised = "none"

\* the kind each collection of a load is for
KindFor(k) ==
    CASE k = "users"         -> s_user
      [] k = "projects"      -> s_project
      [] k = "registrations" -> s_registration
      [] k = "preprints"     -> s_preprint

CollectionNames(c) ==
    DOMAIN c.result \cap {"users", "projects", "registrations", "preprints"}

\* the file positions of the rows whose discriminator cell is exactly `kind`
RowsSpelled(c, kind) ==
    {i - 1 : i \in {j \in DOMAIN c.csv.rows : c.csv.rows[j][Discriminator(c)] = kind}}

AllRows(c) == {i - 1 : i \in DOMAIN c.csv.rows}

\* the rows that are in an entity collection or are a summary or branding row
Accounted(c) ==
    UNION {Members(c.result[k]) : k \in CollectionNames(c)}
        \cup RowsOfKind(c, s_summary) \cup RowsOfKind(c, s_branding)

CellOr(frame, i, col) == IF col \in frame.columns THEN frame.rows[i][col] ELSE <<>>

\* C16 as stated: after a load by any path every row of Projects,
\* Registrations and Preprints carries osf_guid and doi_display, the
\* normalizers applied to its osf_link and doi cells.
C16_Original ==
    Loaded(call) =>
        \A k \in {"projects", "registrations", "preprints"} :
            LET frame == call.result[k] IN
            /\ {"osf_guid", "doi_display"} \subseteq frame.columns
            /\ \A i \in DOMAIN frame.rows :
                /\ frame.rows[i]["osf_guid"]
                        = parse_guid_from_url(CellOr(frame, i, "osf_link"))
                /\ frame.rows[i]["doi_display"]
                        = parse_doi_display(CellOr(frame, i, "doi"))

(***************************************************************************)
(* SpecNorm: one call of one field normalizer per step, on a cell drawn    *)
(* from the sets below.                                                    *)
(***************************************************************************)
\* what precedes the last path segment of an osf_link cell
GuidPrefixes ==
    {<<>>,
     <<"h", "t", "t", "p", "s", ":", "/", "/", "o", "s", "f", ".", "i", "o", "/">>,
     <<"h", "t", "t", "p", "s", ":", "/", "/", "o", "s", "f", ".", "i", "o", "/", "r", "e", "g", "i", "s", "t", "r", "a", "t", "i", "o", "n", "s", "/">>}

\* the last path segment: GUIDs of 5 characters, a longer and a shorter
\* token, upper case, and text that is no token
GuidTokens ==
    {<<"k", "r", "6", "8", "a">>,
     <<"K", "R", "6", "8", "A">>,
     <<"a", "b", "1", "2">>,
     <<"a", "b", "c">>,
     <<"p", "r", "e", "p", "r", "i", "n", "t", "0", "1">>,
     <<"n", "o", "t", " ", "a", " ", "u", "r", "l">>,
     <<>>}

\* what follows the token
GuidSuffixes ==
    {<<>>,
     <<"/">>,
     <<"_", "v", "2", "/">>,
     <<"?", "x", "=", "1">>,
     <<"#", "a">>}

GuidInputs == {p \o t \o x : p \in GuidPrefixes, t \in GuidTokens, x \in GuidSuffixes}

\* the prefixes a doi cell can carry, once or twice
DoiPrefixes ==
    {<<>>,
     <<"d", "o", "i", ":">>,
     <<"D", "O", "I", ":", " ">>,
     <<"h", "t", "t", "p", "s", ":", "/", "/", "d", "o", "i", ".", "o", "r", "g", "/">>,
     <<"h", "t", "t", "p", ":", "/", "/", "d", "o", "i", ".", "o", "r", "g", "/">>,
     <<"h", "t", "t", "p", ":", "/", "/", "d", "x", ".", "d", "o", "i", ".", "o", "r", "g", "/">>,
     <<"H", "T", "T", "P", "S", ":", "/", "/", "D", "O", "I", ".", "O", "R", "G", "/">>}

DoiBodies ==
    {<<"1", "0", ".", "1", "/", "x">>,
     <<"1", "0", ".", "1", "/", "x", " ">>,
     <<>>}

DoiInputs == {p \o q \o b : p \in DoiPrefixes, q \in DoiPrefixes, b \in DoiBodies}

\* numeric cells: plain, with a thousands separator, with a decimal, padded,
\* empty, and the words pandas and Python write for a missing value
NumberInputs ==
    {None} \cup
    {<<>>,
     <<"0">>,
     <<"7">>,
     <<"1", "2", "3", "4">>,
     <<"1", ",", "2", "3", "4">>,
     <<"1", "2", ".", "5">>,
     <<" ", "4", "2", " ">>,
     <<"n", "o", "n", "e">>,
     <<"N", "o", "n", "e">>,
     <<"n", "a", "n">>,
     <<"N", "a", "N">>,
     <<"N", "A", "N">>,
     <<"i", "n", "f">>,
     <<"n", "/", "a">>,
     <<"1", ".">>,
     <<".", "5">>,
     <<"1", ".", "2", ".", "3">>}

Call_parse_guid_from_url ==
    /\ call = NoCall
    /\ \E url \in GuidInputs :
        call' = [fn |-> "parse_guid_from_url", x |-> url,
                 result |-> parse_guid_from_url(url)]
    /\ UNCHANGED session_vars

Call_extract_osf_guid ==
    /\ call = NoCall
    /\ \E value \in GuidInputs :
        call' = [fn |-> "extract_osf_guid", x |-> value,
                 result |-> extract_osf_guid(value)]
    /\ UNCHANGED session_vars

\* dashboard_v4.py: the DOI text of a cell, its link, and the text of the link
Call_parse_doi_display ==
    /\ call = NoCall
    /\ \E doi \in DoiInputs :
        call' = [fn |-> "parse_doi_display", x |-> doi,
                 result |-> parse_doi_display(doi),
                 url    |-> _doi_url(parse_doi_display(doi)),
                 again  |-> parse_doi_display(_doi_url(parse_doi_display(doi))),
                 twice  |-> parse_doi_display(parse_doi_display(doi))]
    /\ UNCHANGED session_vars

\* dashboard_v6.py: the DOI text of a cell, its link, and the text of the link
Call_normalize_doi ==
    /\ call = NoCall
    /\ \E value \in DoiInputs :
        call' = [fn |-> "normalize_doi", x |-> value,
                 result |-> normalize_doi(value),
                 url    |-> make_doi_url(normalize_doi(value)),
                 again  |-> normalize_doi(make_doi_url(normalize_doi(value))),
                 twice  |-> normalize_doi(normalize_doi(value))]
    /\ UNCHANGED session_vars

\* `tried` is how the body of the try block ended: "float" for a number, or
\* the exception the except clause caught
Call_as_int ==
    /\ call = NoCall
    /\ \E val \in NumberInputs :
        call' = [fn |-> "_as_int", x |-> val, tried |-> py_int(py_float(val)).kind,
                 result |-> _as_int(val)]
    /\ UNCHANGED session_vars

Call_as_float ==
    /\ call = NoCall
    /\ \E val \in NumberInputs :
        call' = [fn |-> "_as_float", x |-> val, tried |-> py_float(val).kind,
                 result |-> _as_float(val)]
    /\ UNCHANGED session_vars

Call_int ==
    /\ call = NoCall
    /\ \E x \in NumberInputs :
        call' = [fn |-> "_int", x |-> x,
                 tried |-> py_int(py_float(str_strip(py_str(x)))).kind,
                 result |-> _int(x)]
    /\ UNCHANGED session_vars

Call_to_float ==
    /\ call = NoCall
    /\ \E x \in NumberInputs :
        call' = [fn |-> "_to_float", x |-> x,
                 tried |-> py_float(str_strip(py_str(x))).kind,
                 result |-> _to_float(x)]
    /\ UNCHANGED session_vars

NextNorm ==
    \/ Call_parse_guid_from_url
    \/ Call_extract_osf_guid
    \/ Call_parse_doi_display
    \/ Call_normalize_doi
    \/ Call_as_int
    \/ Call_as_float
    \/ Call_int
    \/ Call_to_float
    \/ Return

SpecNorm == InitFn /\ [][NextNorm]_vars

(***************************************************************************)
(* Properties of the field normalizers.                                    *)
(***************************************************************************)
\* s up to the first of its characters that is in `marks`
UpTo(s, marks) ==
    LET at == {i \in DOMAIN s : s[i] \in marks} IN
    IF at = {} THEN s
    ELSE SubSeq(s, 1, (CHOOSE i \in at : \A j \in at : i <= j) - 1)

\* the trailing path segment of a cell: the query string or fragment and one
\* trailing slash set aside, what follows the last "/", up to its first "_"
TrailingSegment(raw) ==
    LET path    == UpTo(str_strip(raw), {"?", "#"})
        whole   == IF path # <<>> /\ path[Len(path)] = "/"
                   THEN SubSeq(path, 1, Len(path) - 1) ELSE path
        slashes == {i \in DOMAIN whole : whole[i] = "/"}
        segment == IF slashes = {} THEN whole
                   ELSE str_from(whole, CHOOSE i \in slashes : \A j \in slashes : i >= j)
    IN  UpTo(segment, {"_", "?", "#"})

\* the GUID the claim describes: the trailing segment when it is 4 to 10
\* alphanumerics, "" otherwise
ExpectedGuid(raw) ==
    LET token == TrailingSegment(raw) IN
    IF Len(token) \in 4..10 /\ \A i \in DOMAIN token : is_alnum(token[i])
    THEN token ELSE <<>>

\* C17 as stated: extract_guid returns the 4-to-10 character alphanumeric token
\* of the trailing path segment, cut at the first "_", "?" or "#", and ""
\* when there is none; among others "https://osf.io/kr68a?x=1" gives "kr68a"
\* and "not a url" gives "".
C17_Original ==
    call.fn \in {"parse_guid_from_url", "extract_osf_guid"} =>
        /\ str_lower(call.result) = str_lower(ExpectedGuid(call.x))
        /\ call.x = s_https_osf_io \o <<"k", "r", "6", "8", "a">> \o <<"/">> => call.result = <<"k", "r", "6", "8", "a">>
        /\ call.x = s_https_osf_io \o <<"k", "r", "6", "8", "a">> \o <<"_", "v", "2", "/">> => call.result = <<"k", "r", "6", "8", "a">>
        /\ call.x = s_https_osf_io \o <<"k", "r", "6", "8", "a">> \o <<"?", "x", "=", "1">> => call.result = <<"k", "r", "6", "8", "a">>
        /\ call.x = <<"n", "o", "t", " ", "a", " ", "u", "r", "l">> => call.result = <<>>

\* C18 as stated: for every non-empty cell the DOI text survives the round
\* trip through its link, normalize_doi(doi_url(normalize_doi(x))) =
\* normalize_doi(x), and normalizing the text again changes nothing.
C18_Original ==
    (call.fn \in {"normalize_doi", "parse_doi_display"} /\ call.x # <<>>) =>
        /\ call.again = call.result
        /\ call.twice = call.result

\* the cell without its thousands separators
WithoutCommas(x) == select(x, {i \in DOMAIN x : x[i] # ","})

\* the number the claim describes, in tenths: the separators dropped, 0 for
\* None, the empty cell and everything that is not a number
ExpectedNumber(x) ==
    LET f == py_float(WithoutCommas(x)) IN
    IF x = None \/ f.kind # "float" THEN Float(0) ELSE f

\* C19 as stated: parse_int and parse_float never raise, read "1,234" as 1234
\* and return the default for None, "" and non-numeric text, "none" and "nan"
\* in any letter case included.
C19_Original ==
    /\ call.fn \in {"_as_int", "_int"} =>
            call.result = int_of(py_int(ExpectedNumber(call.x)))
    /\ call.fn \in {"_as_float", "_to_float"} =>
            call.result = ExpectedNumber(call.x)

(***************************************************************************)
(* Properties of the summary metrics.                                      *)
(***************************************************************************)
\* the file positions (1-based) of the rows the script takes for summary rows
SummaryRows(c) ==
    {i \in DOMAIN c.csv.rows :
        LET cell == c.csv.rows[i][Discriminator(c)] IN
        CASE c.fn = "row_split"    -> cell = s_summary
          [] c.fn = "load_data_v6" -> str_lower(cell) = s_summary
          [] OTHER                 -> KindOf(cell) = s_summary}

\* the cell of the summary row the script uses; None when the file has no
\* summary row or no such column
SummaryField(c, col) ==
    IF SummaryRows(c) = {} \/ col \notin c.csv.columns THEN None
    ELSE c.csv.rows[CHOOSE i \in SummaryRows(c) : \A j \in SummaryRows(c) : i <= j][col]

\* a cell read as an integer, in tenths: 0 for None and for what is no number
ParsedInt(cell) ==
    LET n == py_int(py_float(cell)) IN
    IF failed(n) THEN Float(0) ELSE n

\* the summary tab was drawn
Drawn(c) == Loaded(c) /\ c.metrics.raised = "none"

\* the monthly logged-in and monthly active users a run shows
MonthlyShown(c) ==
    CASE c.fn = "row_split" ->
            <<c.metrics.values.total_logged_in_users, c.metrics.values.total_active_users>>
      [] c.fn = "load_data_v6" ->
            <<c.metrics.values.monthly_logged_in, c.metrics.values.monthly_active>>
      [] OTHER ->
            <<c.metrics.values.Total_Monthly_Logged_in_Users,
              c.metrics.values.Total_Monthly_Active_Users>>

Written(c, col) ==
    IF SummaryField(c, col) = None THEN NoNumber
    ELSE to_numeric(SummaryField(c, col))

\* the user rows of the file with a value in `col`
UsersWith(c, col) ==
    IF col \notin c.csv.columns THEN {}
    ELSE {i \in DOMAIN c.csv.rows :
            c.csv.rows[i][Discriminator(c)] = s_user /\ c.csv.rows[i][col] # <<>>}

\* the monthly users dashboard.py shows: the summary field when it is a
\* number, the number of user rows with a last login or activity otherwise
WrittenOrDerived(c, col, user_col) ==
    IF Written(c, col).kind \in {"float", "inf"} THEN py_int(Written(c, col))
    ELSE Float(10 * Cardinality(UsersWith(c, user_col)))

\* a total dashboard.py shows: the sum of the two summary counts when one of
\* them is a number, the number of rows of the kind otherwise
TotalWrittenOrDerived(c, first_col, second_col, kind) ==
    LET a == Written(c, first_col)
        b == Written(c, second_col)
    IN  IF a.kind \in {"float", "inf"} \/ b.kind \in {"float", "inf"}
        THEN py_int(add(or0(a), or0(b)))
        ELSE Float(10 * Cardinality(RowsSpelled(c, kind)))

s_120 == <<"1", "2", "0">>

s_30 == <<"3", "0">>

\* the projects total a run shows
ProjectsShown(c) ==
    CASE c.fn = "row_split"    -> c.metrics.values.total_projects
      [] c.fn = "load_data_v6" -> c.metrics.values.projects_total
      [] OTHER                 -> c.metrics.values.Projects

\* C21 as stated: with projects_public_count=120 and projects_private_count=30
\* in the summary row the projects metric is 150, whatever the number of
\* project rows.
C21_Original ==
    (/\ call.fn \in Loaders
     /\ Drawn(call)
     /\ SummaryField(call, "projects_public_count") = s_120
     /\ SummaryField(call, "projects_private_count") = s_30) =>
        ProjectsShown(call) = Float(1500)

\* the preprints total a run shows
PreprintsShown(c) ==
    CASE c.fn = "row_split"    -> c.metrics.values.total_preprints
      [] c.fn = "load_data_v6" -> c.metrics.values.preprints_total
      [] OTHER                 -> c.metrics.values.Preprints

\* C22 as stated: the preprints metric is the number of rows of the Preprints
\* collection, with or without a summary row.
C22_Original ==
    (call.fn \in Loaders /\ Drawn(call)) =>
        PreprintsShown(call) = Float(10 * len(call.result.preprints))

\* the total public file count and the total storage in GB a run shows
FilesShown(c) ==
    CASE c.fn = "row_split"    -> c.metrics.values.total_public_files
      [] c.fn = "load_data_v6" -> c.metrics.values.public_file_total
      [] OTHER                 -> c.metrics.values.Total_Public_File_Count

StorageShown(c) ==
    CASE c.fn = "row_split"    -> c.metrics.values.total_storage_gb
      [] c.fn = "load_data_v6" -> c.metrics.values.storage_gb_total
      [] OTHER                 -> c.metrics.values.Total_Storage_in_GB

\* the sum of a numeric column over the rows of a collection, a cell that is
\* no number and a missing column counting 0
ColumnTotal(frame, col) ==
    IF col \notin frame.columns THEN Float(0)
    ELSE sum([i \in DOMAIN frame.rows |-> fillna0(to_numeric(frame.rows[i][col]))])

\* the sum of a numeric column over the content entity collections of a run
ContentTotal(c, col) ==
    add(ColumnTotal(c.result.projects, col),
        add(ColumnTotal(c.result.registrations, col),
            ColumnTotal(c.result.preprints, col)))

\* the same script run on the file without its summary rows
WithoutSummary(c) ==
    Run(c.fn, [columns |-> c.csv.columns,
               rows    |-> select(c.csv.rows, DOMAIN c.csv.rows \ SummaryRows(c))])

\* C23 as stated: the total public file count and the total storage in GB
\* are the sums of their columns over the content entity collections, and
\* the file without its summary rows shows the same two values.
C23_Original ==
    (call.fn \in Loaders /\ Drawn(call)) =>
        /\ FilesShown(call) = py_int(ContentTotal(call, "public_file_count"))
        /\ StorageShown(call) = ContentTotal(call, "storage_gb")
        /\ Drawn(WithoutSummary(call)) =>
                /\ FilesShown(WithoutSummary(call)) = FilesShown(call)
                /\ StorageShown(WithoutSummary(call)) = StorageShown(call)

\* the keys of the summary metrics mapping of each script: the dict
\* compute_summary_metrics returns, the dict summarize_counts returns, the
\* summary dict load_data of dashboard_v6.py returns
MetricKeys(fn) ==
    CASE fn = "row_split" ->
            {"total_users", "total_projects", "total_regs", "total_preprints",
             "total_public_files", "total_storage_gb", "total_logged_in_users",
             "total_active_users"}
      [] fn = "load_data_v6" ->
            {"total_users", "monthly_logged_in", "monthly_active", "projects_total",
             "registrations_total", "preprints_total", "public_file_total",
             "storage_gb_total"}
      [] OTHER ->
            {"OSF_Preprints", "Total_Public_File_Count", "Total_Storage_in_GB",
             "Projects_total", "Registrations_total"}

\* the summary metrics mapping a run computed; empty when computing it raised
MetricsMapping(c) ==
    CASE c.fn = "row_split" ->
            IF c.metrics.raised = "none" THEN c.metrics.values ELSE EmptyDict
      [] c.fn = "load_data_v6" -> c.result.summary
      [] OTHER ->
            summarize_counts(c.result.summary, c.result.projects,
                c.result.registrations, c.result.preprints)

\* C24 as stated: for every dataset that loads, the mapping holds every metric
\* key, each with a number.
C24_Original ==
    (call.fn \in Loaders /\ Loaded(call)) =>
        /\ DOMAIN MetricsMapping(call) = MetricKeys(call.fn)
        /\ \A k \in DOMAIN MetricsMapping(call) :
                MetricsMapping(call)[k].kind \in {"float", "nan", "inf"}

\* computing the summary metrics raised: in compute_summary_metrics of
\* dashboard.py, in render_summary of dashboard_v4.py, or in the summary dict
\* of load_data of dashboard_v6.py (the only AttributeError of a load)
MetricsRaised(c) ==
    \/ c.result.raised = "AttributeError"
    \/ Loaded(c) /\ c.metrics.raised # "none"

\* C25 as stated: computing the summary metrics never raises, whatever
\* numeric cells and columns are missing or malformed.
C25_Original == call.fn \in Loaders => ~MetricsRaised(call)

(***************************************************************************)
(* The CSV export.  A CSV is the sequence of its lines: the header, the    *)
(* names of the columns in order, then one line per row, the cells of the  *)
(* row in the order of the header.                                         *)
(***************************************************************************)
\* df[cols].to_csv(index=False)
to_csv(df, cols) ==
    <<cols>> \o [i \in DOMAIN df.rows |-> [j \in DOMAIN cols |-> df.rows[i][cols[j]]]]

\* dashboard_v6.py: render_entity_tab, from the filters to the download button;
\* `choice` is what the selectboxes return, `checked` the ticked checkboxes
entity_tab_download(entity_key, df, choice, checked) ==
    LET filtered      == build_filters(entity_key, df, choice).out
        allowed_cols  == allowed_cols_v6(entity_key, df.columns)
        selected_cols == render_customize_v6(allowed_cols, allowed_cols, checked)
    IN  [button        |-> TRUE,
         filtered      |-> filtered,
         selected_cols |-> selected_cols,
         csv           |-> to_csv(filtered, selected_cols)]

\* dashboard_v4.py: render_table, from the download button to the filters;
\* df_columns is df.columns, the columns of the collection in file order
render_table_download(entity_key, df, df_columns, choice, checked) ==
    LET csv_bytes     == to_csv(df, df_columns)
        available     == available_v4(entity_key, df.columns)
        selected_cols == render_customize_v4(available, available, checked)
        filtered      == render_filters(entity_key, df, choice).out
    IN  [button        |-> TRUE,
         filtered      |-> filtered,
         selected_cols |-> selected_cols,
         csv           |-> csv_bytes]

\* dashboard.py: the display names of df.rename(columns={...})
display_name(c) ==
    CASE c = "name_or_title"      -> "Title"
      [] c = "osf_link"           -> "OSF Link"
      [] c = "created_date"       -> "Created date"
      [] c = "modified_date"      -> "Modified date"
      [] c = "doi"                -> "DOI"
      [] c = "storage_region"     -> "Storage region"
      [] c = "storage_gb"         -> "Total data stored on OSF (GB)"
      [] c = "contributor_name"   -> "Creator(s)"
      [] c = "views_last_30_days" -> "Views (last 30 days)"
      [] c = "resource_type"      -> "Resource type"
      [] c = "license"            -> "License"
      [] c = "add_ons"            -> "Add-ons"
      [] c = "funder_name"        -> "Funder name"
      [] OTHER                    -> c

\* df.rename(columns={...})
rename(df) ==
    [columns |-> {display_name(c) : c \in df.columns},
     rows    |-> [i \in DOMAIN df.rows |->
                    [d \in {display_name(c) : c \in df.columns} |->
                        df.rows[i][CHOOSE c \in df.columns : display_name(c) = d]]]]

\* dashboard.py: the projects tab, from the filters to the download button;
\* no button is drawn when no project matches
projects_download(projects_raw, sel, session) ==
    LET projects      == projects_filter(projects_raw, sel).out
        display       == rename(projects)
        existing      == present(allowed_cols_v1, display.columns)
        selected_cols == get_saved_columns(existing, "projects", session)
    IN  IF len(projects) = 0
        THEN [button |-> FALSE, filtered |-> projects, selected_cols |-> <<>>,
              csv |-> <<>>]
        ELSE [button        |-> TRUE,
              filtered      |-> projects,
              selected_cols |-> selected_cols,
              csv           |-> to_csv(display, selected_cols)]

(***************************************************************************)
(* SpecExport: one rendering of a tab up to its download button per step.  *)
(***************************************************************************)
ExportColumns == {"name_or_title", "license"}

\* the orders a file can hold the columns of S in
Orders(S) == {s \in [1..Cardinality(S) -> S] : Range(s) = S}

\* the checkbox states customize_columns_box can have left for the projects tab
ExportSessions ==
    {NoSession} \cup
    {(cols_key("projects") :> state) :
        state \in UNION {[S -> BOOLEAN] : S \in SUBSET {"License", "Creator(s)"}}}

Call_entity_tab_download ==
    /\ call = NoCall
    /\ \E df \in Frames(ExportColumns, MaxFilterRows), choice \in Choices :
        \E checked \in SUBSET Range(allowed_cols_v6("project", df.columns)) :
            /\ ValidChoice(df, build_filters("project", df, choice).offered, choice)
            /\ \A f \in FilterFields \ df.columns : choice[f] = "All"
            /\ call' = [fn |-> "entity_tab_download", entity_key |-> "project",
                        df |-> df, choice |-> choice, checked |-> checked,
                        offered |-> allowed_cols_v6("project", df.columns),
                        result |-> entity_tab_download("project", df, choice, checked)]
            /\ UNCHANGED session_vars

Call_render_table_download ==
    /\ call = NoCall
    /\ \E df \in Frames(ExportColumns, MaxFilterRows), choice \in Choices :
        \E df_columns \in Orders(df.columns),
           checked \in SUBSET Range(available_v4("project", df.columns)) :
            /\ ValidChoice(df, render_filters("project", df, choice).offered, choice)
            /\ \A f \in FilterFields \ df.columns : choice[f] = "All"
            /\ call' = [fn |-> "render_table_download", entity_key |-> "project",
                        df |-> df, choice |-> choice, checked |-> checked,
                        offered |-> available_v4("project", df.columns),
                        result |-> render_table_download("project", df, df_columns,
                                                         choice, checked)]
            /\ UNCHANGED session_vars

Call_projects_download ==
    /\ call = NoCall
    /\ \E df \in MixedFrames({"license", "contributor_name"}, MaxFilterRows),
          session \in ExportSessions :
        \E sel \in Selections(df) :
            LET existing == present(allowed_cols_v1, rename(df).columns) IN
            /\ call' = [fn |-> "projects_download", df |-> df, sel |-> sel,
                        session |-> session,
                        checked |-> IF session = NoSession THEN Range(existing)
                                    ELSE {c \in Range(existing) :
                                            LET state == session[cols_key("projects")] IN
                                            IF c \in DOMAIN state THEN state[c] ELSE TRUE},
                        offered |-> existing,
                        result |-> projects_download(df, sel, session)]
            /\ UNCHANGED session_vars

NextExport ==
    \/ Call_entity_tab_download
    \/ Call_render_table_download
    \/ Call_projects_download
    \/ Return

SpecExport == InitFn /\ [][NextExport]_vars

Exports == {"entity_tab_download", "render_table_download", "projects_download"}

\* the column of the collection a column of the CSV shows
source_column(c, d) == CHOOSE x \in c.df.columns : display_name(x) = d \/ x = d

\* whether the filters the user set keep row r of the collection
ViewKeeps(c, r) ==
    IF c.fn = "projects_download" THEN MultiKeeps(c, r, FALSE)
    ELSE \A f \in FilterFields \cap c.df.columns :
            c.choice[f] # "All" => r[f] = c.choice[f]

\* the lines the export of the view would hold under the header `header`
ViewLines(c, header) ==
    LET view == SelectSeq(c.df.rows, LAMBDA r : ViewKeeps(c, r)) IN
    [i \in DOMAIN view |-> [j \in DOMAIN header |-> view[i][source_column(c, header[j])]]]

\* C26 as stated: the CSV handed to the download button is one header row, the
\* ticked columns in the order they are offered, followed by the rows of the
\* filtered view in view order, cut to those columns; no row the filters
\* excluded and no column the user unticked is in it.
C26_Original ==
    (call.fn \in Exports /\ call.result.button) =>
        LET csv    == call.result.csv
            header == IF call.checked = {} THEN call.result.selected_cols
                      ELSE SelectSeq(call.offered, LAMBDA c : c \in call.checked)
        IN  csv = <<header>> \o ViewLines(call, header)

\* C28 as stated: in every pass, after any page-button presses and filter
\* changes, a view that holds rows is shown with a page window of at least
\* one row.
C28_Original == Len(shown.filtered) > 0 => Len(shown.page_rows) > 0

\* the page a session stores for the tab, counted from 1
StoredPage(session) ==
    IF impl = "v1" THEN session[page_key("projects")] + 1
    ELSE session[page_key("project")]

\* the session the press of `button` leaves: dashboard.py stores the page in
\* the rerun the press starts; v4 and v6 store it and rerun
AfterPress(button) ==
    CASE impl = "v1" ->
            RenderPass("v1", df_entity, widgets, page_size, session_state, button).session
      [] impl = "v6" ->
            render_pagination_controls_v6("project", shown.page, shown.total_pages,
                                          button, session_state)
      [] impl = "v4" ->
            render_table_controls("project", shown.page, shown.total_pages,
                                  button, session_state)

\* the page of the table in the pass that handles the press
PageAtPress == IF impl = "v1" THEN StoredPage(session_state) ELSE shown.page

\* what the press of `button` has to store
PressStoresValidPage(button, stored) ==
    /\ stored \in 1..shown.total_pages
    /\ CASE button = "first" -> stored = 1
         [] button = "last"  -> stored = shown.total_pages
         [] button = "prev"  -> stored = Max(1, PageAtPress - 1)
         [] button = "next"  -> stored = Min(shown.total_pages, PageAtPress + 1)

\* C29 as stated: every button the user can press stores a page that is valid
\* for the view of the pass: first stores the first page, last the last page,
\* prev and next the page one before and one after the page shown, and a
\* press at the first or last page leaves the stored page in range.
C29_Original ==
    \A button \in {"first", "prev", "next", "last"} :
        CanPress(impl, button, shown) =>
            PressStoresValidPage(button, StoredPage(AfterPress(button)))

(***************************************************************************)
(* The frames of one pass.  A pass holds its DataFrame objects in a heap,  *)
(* a sequence of frames; a DataFrame of the script is a reference: the     *)
(* object it names and the window of the object's rows it shows.           *)
(***************************************************************************)
\* the reference to the whole of object obj
ref_all(heap, obj) == [obj |-> obj, start |-> 0, end |-> len(heap[obj])]

\* the frame a reference shows
deref(heap, r) == iloc(heap[r.obj], r.start, r.end)

\* the bug of leaving a .copy() out: the name is bound to the same object
no_copy(heap, r) == [heap |-> heap, ref |-> r]

\* df.copy(): a new object with the rows the reference shows
copy(heap, r) ==
    [heap |-> Append(heap, deref(heap, r)),
     ref  |-> [obj |-> Len(heap) + 1, start |-> 0, end |-> len(deref(heap, r))]]

\* df[mask]: boolean indexing makes a new object, the rows kept
boolean_index(heap, kept) ==
    [heap |-> Append(heap, kept),
     ref  |-> [obj |-> Len(heap) + 1, start |-> 0, end |-> len(kept)]]

\* df.iloc[start:end]: a window on the rows of the same object
iloc_ref(r, start, end) ==
    [obj   |-> r.obj,
     start |-> Min(r.end, r.start + start),
     end   |-> Min(r.end, r.start + end)]

\* dashboard_v4.py: page_df["doi"] = page_df["doi"].apply(_doi_url), a write
\* to the object page_df names
setitem_doi(heap, r) ==
    [heap EXCEPT ![r.obj] =
        [columns |-> @.columns,
         rows    |-> [i \in DOMAIN @.rows |->
                        IF i \in (r.start + 1)..r.end
                        THEN [@.rows[i] EXCEPT !["doi"] = _doi_url(@)]
                        ELSE @.rows[i]]]]

\* whether a filter of the tab indexes the frame with a mask
masked(df, choice) == \E f \in FilterFields \cap df.columns : choice[f] \notin {"All", ""}

\* dashboard_v4.py: render_table, the objects of a pass: out = df.copy(), the
\* masks of render_filters, page_df and the DOI rewrite; object 1 is the
\* entity collection
render_table_objects(df, kept, is_masked, start, end) ==
    LET out      == copy(<<df>>, ref_all(<<df>>, 1))
        filtered == IF is_masked THEN boolean_index(out.heap, kept) ELSE out
        page_df  == copy(filtered.heap, iloc_ref(filtered.ref, start, end))
        heap     == IF "doi" \in df.columns
                    THEN setitem_doi(page_df.heap, page_df.ref) ELSE page_df.heap
    IN  [collection |-> heap[1], page_rows |-> deref(heap, page_df.ref).rows]

\* dashboard_v6.py: render_entity_tab, the objects of a pass: out = df_entity,
\* the masks of build_filters and the page of paginate, which is the view
\* itself when the view is empty
render_entity_tab_objects(df, kept, is_masked, start, end) ==
    LET out      == [heap |-> <<df>>, ref |-> ref_all(<<df>>, 1)]
        filtered == IF is_masked THEN boolean_index(out.heap, kept) ELSE out
        page_df  == IF len(kept) = 0 THEN filtered
                    ELSE copy(filtered.heap, iloc_ref(filtered.ref, start, end))
    IN  [collection |-> page_df.heap[1],
         page_rows  |-> deref(page_df.heap, page_df.ref).rows]

(***************************************************************************)
(* SpecTabs: one session of dashboard_v4.py or dashboard_v6.py with its    *)
(* three entity tabs.  Every run of the script renders every tab.          *)
(***************************************************************************)
Entities == <<"project", "registration", "preprint">>

\* f"{entity_key}_flt_{field}" (v6); f"{key}_lic", f"{key}_reg", f"{key}_rt" (v4)
flt_key(entity_key, field) == <<entity_key, "flt", field>>

\* f"{entity_key}_col_{col}" (v6); f"{pop_key}_col_{c}" (v4)
col_key(entity_key, c) == <<entity_key, "col", c>>

\* the columns the Customize popover of a tab offers
offered_cols(script, entity_key, columns) ==
    IF script = "v6" THEN allowed_cols_v6(entity_key, columns)
    ELSE available_v4(entity_key, columns)

\* what the selectboxes of a tab return
choice_of(w, entity_key) ==
    [f \in FilterFields |->
        IF flt_key(entity_key, f) \in DOMAIN w THEN w[flt_key(entity_key, f)] ELSE "All"]

\* the columns whose checkbox of a tab returns True
checked_of(w, entity_key, cols) == {c \in Range(cols) : w[col_key(entity_key, c)]}

\* what a pass of a tab leaves and shows
tab_pass(session, objects, kept, offered, selected_cols, requested, page, total_pages) ==
    [session    |-> session,
     collection |-> objects.collection,
     shown      |-> [paginated     |-> TRUE,
                     filtered      |-> kept.rows,
                     offered       |-> offered,
                     selected_cols |-> selected_cols,
                     requested     |-> requested,
                     page          |-> page,
                     total_pages   |-> total_pages,
                     page_rows     |-> objects.page_rows]]

\* dashboard_v6.py: render_entity_tab(entity_label, entity_key, df_entity)
render_entity_tab_of(entity_key, df, w, size, session) ==
    LET f == build_filters(entity_key, df, choice_of(w, entity_key))
        p == paginate(f.out, entity_key, size, session)
    IN  tab_pass(p.session,
                 render_entity_tab_objects(df, f.out, masked(df, choice_of(w, entity_key)),
                                           (p.page - 1) * size, (p.page - 1) * size + size),
                 f.out, f.offered,
                 render_customize_v6(allowed_cols_v6(entity_key, df.columns),
                                     allowed_cols_v6(entity_key, df.columns),
                                     checked_of(w, entity_key,
                                                allowed_cols_v6(entity_key, df.columns))),
                 session_get(session, page_key(entity_key), 1), p.page, p.total_pages)

\* dashboard_v4.py: render_table(entity_label, entity_key, df)
render_table_of(entity_key, df, w, size, session) ==
    LET f == render_filters(entity_key, df, choice_of(w, entity_key))
        p == render_table_page(f.out, entity_key, size, session)
    IN  tab_pass(session,
                 render_table_objects(df, f.out, masked(df, choice_of(w, entity_key)),
                                      (p.page - 1) * size, (p.page - 1) * size + size),
                 f.out, f.offered,
                 render_customize_v4(available_v4(entity_key, df.columns),
                                     available_v4(entity_key, df.columns),
                                     checked_of(w, entity_key,
                                                available_v4(entity_key, df.columns))),
                 session_get(session, page_key(entity_key), 1), p.page, p.total_pages)

\* dashboard_v4.py, dashboard_v6.py: main, the tabs rendered one after the
\* other on one st.session_state; `done` holds the passes of the tabs before
RECURSIVE main_tabs(_, _, _, _, _, _, _)
main_tabs(script, entities, collections, w, size, session, done) ==
    IF entities = <<>> THEN [session |-> session, passes |-> done]
    ELSE
        LET entity_key == Head(entities)
            pass == IF script = "v6"
                    THEN render_entity_tab_of(entity_key, collections[entity_key],
                                              w, size, session)
                    ELSE render_table_of(entity_key, collections[entity_key],
                                         w, size, session)
        IN  main_tabs(script, Tail(entities), collections, w, size, pass.session,
                      done @@ (entity_key :> pass))

s_10_1_x == <<"1", "0", ".", "1", "/", "x">>

\* the entity collections of the files a session is opened on
TabFiles ==
    LET row(license, doi) == [license |-> license, doi |-> doi]
        only(license)     == [license |-> license]
    IN  {[project      |-> [columns |-> {"license", "doi"}, rows |-> projects],
          registration |-> [columns |-> {"license"},
                            rows    |-> <<only("MIT"), only("CC0")>>],
          preprint     |-> [columns |-> {"license"}, rows |-> preprints]] :
            projects  \in {<<row("MIT", <<>>), row("", s_10_1_x)>>,
                           <<row("MIT", s_10_1_x), row("MIT", <<>>), row("", s_10_1_x)>>},
            preprints \in {<<>>, <<only("")>>}}

\* the widgets of the tabs before the user touches them: every selectbox on
\* "All", every checkbox ticked
FreshTabWidgets(script, collections) ==
    LET tabs == Range(Entities)
        keys == {flt_key(e, f) : e \in tabs, f \in FilterFields}
                    \cup {col_key(e, c) : e \in tabs, c \in {"license", "doi"}}
    IN  [k \in {x \in keys :
                    IF x[2] = "flt" THEN x[3] \in collections[x[1]].columns
                    ELSE x[3] \in Range(offered_cols(script, x[1], collections[x[1]].columns))}
            |-> IF k[2] = "flt" THEN "All" ELSE TRUE]

InitTabs ==
    /\ call = NoCall
    /\ impl \in {"v4", "v6"}
    /\ page_size = 1
    /\ \E collections \in TabFiles :
        LET w   == FreshTabWidgets(impl, collections)
            run == main_tabs(impl, Entities, collections, w, 1, NoSession, <<>>)
        IN  /\ widgets = w
            /\ session_state = run.session
            /\ df_entity = [e \in Range(Entities) |-> run.passes[e].collection]
            /\ shown = [e \in Range(Entities) |-> run.passes[e].shown]

\* the state a run of the script leaves
AfterRun(w, run) ==
    /\ widgets' = w
    /\ session_state' = run.session
    /\ df_entity' = [e \in Range(Entities) |-> run.passes[e].collection]
    /\ shown' = [e \in Range(Entities) |-> run.passes[e].shown]
    /\ UNCHANGED <<call, impl, page_size>>

\* the run of the script that follows an interaction
RerunTabs(w, session) ==
    AfterRun(w, main_tabs(impl, Entities, df_entity, w, page_size, session, <<>>))

\* the user picks another license in the License selectbox of a tab
SelectFilterOn(entity_key) ==
    /\ flt_key(entity_key, "license") \in DOMAIN widgets
    /\ \E choice \in ({"All"} \cup shown[entity_key].offered["license"])
                        \ {widgets[flt_key(entity_key, "license")]} :
            RerunTabs([widgets EXCEPT ![flt_key(entity_key, "license")] = choice],
                      session_state)

\* the user ticks or unticks a checkbox of the Customize popover of a tab
CheckColumnOn(entity_key) ==
    \E c \in {"license", "doi"} :
        /\ col_key(entity_key, c) \in DOMAIN widgets
        /\ RerunTabs([widgets EXCEPT ![col_key(entity_key, c)] = ~@], session_state)

\* the user presses a pagination button of a tab
PressOn(entity_key) ==
    \E button \in {"first", "prev", "next", "last"} :
        /\ CanPress(impl, button, shown[entity_key])
        /\ RerunTabs(widgets,
                     IF impl = "v6"
                     THEN render_pagination_controls_v6(entity_key,
                              shown[entity_key].page, shown[entity_key].total_pages,
                              button, session_state)
                     ELSE render_table_controls(entity_key,
                              shown[entity_key].page, shown[entity_key].total_pages,
                              button, session_state))

TabSelectFilter == \E entity_key \in Range(Entities) : SelectFilterOn(entity_key)

TabCheckColumn == \E entity_key \in Range(Entities) : CheckColumnOn(entity_key)

TabPress == \E entity_key \in Range(Entities) : PressOn(entity_key)

NextTabs ==
    \/ TabSelectFilter
    \/ TabCheckColumn
    \/ TabPress

SpecTabs == InitTabs /\ [][NextTabs]_vars

(***************************************************************************)
(* Properties of a session with its three tabs.                            *)
(***************************************************************************)
\* C27: the entity collections are read-only for the session: they are the
\* collections of the file after the first run, and no filter change,
\* column selection, page-button press or rendering that follows changes a
\* row, the order of the rows or a cell of any of them.
C27_CollectionsReadOnly ==
    /\ df_entity \in TabFiles
    /\ [][df_entity' = df_entity]_vars

\* dashboard_v4.py shows the second project with its DOI rewritten as a link
\* and a column unticked, and the collection still holds the DOI of the file
C27_Witness ==
    /\ impl = "v4"
    /\ shown["project"].page = 2
    /\ ~widgets[col_key("project", "license")]
    /\ shown["project"].page_rows = <<[license |-> "", doi |-> s_https_doi_org \o s_10_1_x]>>
    /\ df_entity["project"].rows[2] = [license |-> "", doi |-> s_10_1_x]

\* what the session stores for a tab: its page, what its selectboxes return
\* and which of its checkboxes are ticked
TabState(entity_key, w, session) ==
    [page    |-> session_get(session, page_key(entity_key), "unset"),
     widgets |-> [k \in {x \in DOMAIN w : x[1] = entity_key} |-> w[k]]]

\* C30: session state is kept per entity: a page-button press, a filter
\* change or a column selection on one tab leaves the stored page, the
\* filter selections and the column selections of every other tab unchanged.
C30_PerEntityState ==
    [][\A entity_key \in Range(Entities) :
            (SelectFilterOn(entity_key) \/ CheckColumnOn(entity_key) \/ PressOn(entity_key))
                => \A other \in Range(Entities) \ {entity_key} :
                        TabState(other, widgets', session_state')
                            = TabState(other, widgets, session_state)]_vars

\* the projects tab is filtered and on its second page while the
\* registrations tab is on its own second page with a column unticked
C30_Witness ==
    /\ widgets[flt_key("project", "license")] = "MIT"
    /\ session_get(session_state, page_key("project"), 1) = 2
    /\ shown["project"].page = 2
    /\ session_get(session_state, page_key("registration"), 1) = 2
    /\ ~widgets[col_key("registration", "license")]
    /\ widgets[flt_key("registration", "license")] = "All"

====
